---------------------------- MODULE Spec2Model ----------------------------
(***************************************************************************)
(* A model of the palantir peer core: the timeout registry                 *)
(* (src/src/timeout.rs), the request/response channel                      *)
(* (src/src/peer/channel.rs), the framed codec (src/src/frame.rs) and the  *)
(* two handshakes (src/src/message.rs, src/src/peer/handshake.rs).         *)
(*                                                                         *)
(* Every subsystem has its own group of variables and its own              *)
(* specification; a specification leaves the other groups untouched.       *)
(***************************************************************************)
EXTENDS Integers, Sequences, FiniteSets, TLC

(***************************************************************************)
(* Bounds of the model.                                                    *)
(***************************************************************************)
\* Threads calling into one TimeoutChannels.
NThreads == 2
\* Total number of add calls explored on one registry.
MaxAdds == 3
\* The clock stops advancing here.
MaxTime == 45
\* One step of the clock, in seconds.
TimeStep == 15
\* Frames written to one framed stream.
MaxFrames == 2
\* The most bytes one read of the transport hands over.
MaxChunk == 6
\* Bytes announced by a frame that is cut short.
MaxCut == 5
\* The largest numeric actor id handed to ActorID::from_identifier.
MaxActorId == 11
\* Keys add has issued before a mutex of the registry is poisoned.
MaxRecKeys == 3
\* Handshakes that run at the same time on one node.
MaxHandshakes == 3
\* Tasks that run handshake or open_channel on one Peer.
MaxGuardTasks == 3
\* Calls of add, pop and tick followed through their locks, and panics among them.
MaxLockCalls == 4
MaxPanics == 1
\* Byte strings sent with WTNamespace::send_raw.
MaxNsFrames == 3
\* Frames the remote end of a channel writes on its own initiative.
MaxForged == 1
\* Request calls made on one channel.
MaxCalls == 2
\* Frames the far end of a handshake stream writes.
MaxEnvFrames == 3
\* Packets a validator writes during its window.
MaxVPackets == 1
\* Largest multiple of 2^32 in the length of a payload handed to send.
MaxAbove == 2
\* Sessions the endpoint of a node hands to its accept loop.
MaxSessions == 2
\* Tasks spawned into the join set of a node.
MaxTasks == 3
\* Callbacks registered with on_new_connection.
MaxCallbacks == 1

(***************************************************************************)
(* Program constants.                                                      *)
(***************************************************************************)
\* Duration::from_secs(30) of Channel::new.
Timeout == 30
\* while error_counter < 5 of Channel::run.
RunErrorLimit == 5
VARIABLES
    \* ---- TimeoutChannels ----
    channels,        \* the SlotMap of senders
    timeout_queue,   \* the VecDeque of (Instant, key)
    tqLock,          \* holder of the timeout_queue mutex (0: free)
    now,             \* the clock (Instant::now())
    rpc,             \* per thread: where it is inside add / pop / tick
    rarg,            \* per thread: the locals of the call in progress
    oneshot,         \* per oneshot channel: the state seen by its Receiver
    issued,          \* history: the keys returned by add, in order
    gonePop,         \* history: keys whose sender a pop took out of the slotmap
    goneTick,        \* history: keys whose sender tick took out of the slotmap
    lastPop,         \* history: the last pop's key, its answer, and whether
                     \* the entry was live according to the history
    \* ---- one framed stream: SendFramed at one end, RecvFramed at the other ----
    fSent,           \* history: the frames written, in order
    fWire,           \* the bytes written and not yet read
    fFinished,       \* the send half has been finished
    fPhase,          \* recv is reading the length ("len") or the payload ("data")
    fBuf,            \* the bytes read_exact has collected so far
    fNeed,           \* the number of bytes read_exact was asked for
    fRecv,           \* history: what the recv calls returned, in order
    fSplit,          \* history: some read returned fewer bytes than asked for
    fCut,            \* history: <<n, k>> once a frame announcing n bytes was cut
                     \* after k of them, <<>> before
    \* ---- one Channel: request calls, its run loop, and the remote end ----
    calls,           \* the request calls made so far, the last one possibly running
    outWire,         \* payloads sent by request and not yet read by the remote
    inWire,          \* payloads written by the remote and not yet returned by recv
    inClosed,        \* the remote has finished the stream the run loop reads
    error_counter,   \* the run loop's error_counter
    runBody,         \* the run loop's local: the body of the Response in hand
    delivered,       \* history: every responder.send of the run loop
    remoteEchoes,    \* history: the remote has done nothing but echo requests
    answered,        \* history: the request ids of the Responses the remote wrote
    forged,          \* history: number of frames the remote wrote unasked
    recvLog,         \* history: whether each recv of the run loop failed or decoded
    discarded,       \* history: the messages the run loop decoded and dropped unused
    \* ---- the four-step handshake of src/src/message.rs, one entry per side ----
    hsScenario,      \* "paired": the two functions run on one connection and
                     \* nothing else does; "initiator", "acceptor": that function
                     \* runs and the far end of its stream is anybody
    hsName,          \* instance.name
    hsPeers,         \* the names in instance.peers
    hsPc,            \* where the side is in its function
    hsIn,            \* the frame waiting in the side's RecvStream, if any
    hsInFinished,    \* the far end has finished the side's RecvStream
    hsLog,           \* history: the frames sent and received on the side's stream
    hsPeerName,      \* the name received with a valid magic
    hsRes,           \* what the function returned
    hsValidatorInvoked, \* history: validator.handshake has been called
    hsClosed,        \* framed.0.close() has run
    hsEnvCount,      \* history: frames the far end has written
    hsVCount,        \* history: packets the validator has written
    \* ---- the peer handshake of src/src/peer/handshake.rs, one entry per node ----
    phName,          \* peer.name
    phPeers,         \* peer.peers: a set of <<name, connection>>
    phPeers0,        \* history: peer.peers before the handshake
    phPc,            \* where the node is in handshake()
    phWire,          \* the payloads on their way to the node
    phGone,          \* the node has returned and dropped its streams
    phBroken,        \* the connection has failed
    phRes,           \* what handshake() returned
    phFound,         \* history: the node found the received name in its table
    phPeerName,      \* the name received in the peer's Handshake
    phLost,          \* history: a recv failed while a frame was waiting for it
    \* ---- SendFramed::send of a payload of a given length (src/src/frame.rs) ----
    szLen,           \* data.len() of the payload handed to send: what lies above
                     \* its low 32 bits, their high half and their low half
    szOut,           \* what send returned and how many bytes it wrote
    \* ---- the node: accept loop, join set, callbacks and drop ----
    ndKind,          \* which node runs: "Palantir" (lib.rs) or "Peer" (peer/mod.rs)
    ndPc,            \* where the accept loop of run / run_forever is
    ndHeader,        \* the name header of the session in hand: <<>> or <<name>>
    ndTrace,         \* history: the steps the loop has run for the session in hand
    ndFate,          \* history: what became of the session in hand
    ndCount,         \* number of sessions endpoint.accept() has returned
    ndPeers,         \* the names that are keys of the peer table
    ndTasks,         \* the join set: the tasks spawned into it
    ndPoisoned,      \* the join-set mutex is poisoned
    ndDropped,       \* the node has been dropped
    ndRunRes,        \* what run / run_forever returned
    ndCallbacks,     \* new_peer_callbacks: for each, the number of sessions seen
                     \* when it was pushed
    ndInvoked,       \* history: the calls of callbacks, as <<callback, name>>
    ndStreams,       \* history: the streams accept_bi returned in handle_connection
    ndClosed,        \* the connection tasks that have closed their connection
    \* ---- ActorID::from_identifier (actor_id.rs) ----
    aiIdentifier,    \* the fluxion Identifier handed to ActorID::from_identifier
    aiResult,        \* <<>> before the call, then <<r>> with r the Option<ActorID> returned
    \* ---- TimeoutChannels::recover (timeout.rs) ----
    tq_poisoned,     \* the timeout_queue mutex is poisoned
    channels_poisoned, \* the channels mutex is poisoned
    recovered,       \* history: recover has run
    \* ---- handshakes running concurrently on one node ----
    cxKind,          \* which function the concurrent calls run: handshake of Peer or new_peer of Palantir
    cxPeers,         \* the peer table of the node: name -> connection (0: no entry)
    cxPc,            \* per call: where it is
    cxName,          \* per call: the name its counterparty presented
    cxAddr,          \* per call: the remote address of its connection
    cxRes,           \* per call: what it returned
    cxFound,         \* history, per call: its lookup found the name in the table
    cxReplaced,      \* history: an insert replaced the connection of a name
    \* ---- lock guards of Peer across await points ----
    gdFn,            \* per task: the function it runs, handshake or open_channel
    gdPc,            \* per task: the statement it is at, or the await it is suspended in
    gdHeld,          \* per task: the lock guards it holds
    gdTable,         \* the names that are keys of peer.peers
    gdArg,           \* per task: the name it looks up
    gdSpawned,       \* the number of futures spawned on the join set
    \* ---- the two mutexes of TimeoutChannels ----
    lkPc,            \* per thread: where it is in add, pop, tick or recover
    lkHeld,          \* per thread: the registry mutexes it holds, in the order it locked them
    lkPoison,        \* per mutex: it is poisoned
    lkRet,           \* per thread: the lock it retries after recover, if it ran recover
    lkCalls,         \* the number of calls started
    lkPanics,        \* the number of panics so far
    \* ---- WTNamespace send_raw and recv_raw ----
    nsSent,          \* history: the byte strings handed to send_raw, in order
    nsWire,          \* the bytes written to the stream and not yet read
    nsBuf,           \* self.buf of the receiving WTNamespace
    nsPc,            \* where recv_raw is: before its read_exact (length) or in its loop (data)
    nsLength,        \* the length recv_raw has read, while it is in its loop
    nsRecv,          \* history: what the recv_raw calls returned, in order
    nsAhead          \* history: a read returned bytes of a later frame

frameVars == <<fSent, fWire, fFinished, fPhase, fBuf, fNeed, fRecv, fSplit, fCut>>

regVars == <<channels, timeout_queue, tqLock, now, rpc, rarg, oneshot,
             issued, gonePop, goneTick, lastPop>>

chanVars == <<calls, outWire, inWire, inClosed, error_counter, runBody, delivered,
              remoteEchoes, answered, forged, recvLog,
                   discarded>>

hsVars == <<hsScenario, hsName, hsPeers, hsPc, hsIn, hsInFinished, hsLog, hsPeerName,
            hsRes, hsValidatorInvoked, hsClosed, hsEnvCount, hsVCount>>

phVars == <<phName, phPeers, phPeers0, phPc, phWire, phGone, phBroken, phRes, phFound,
            phPeerName, phLost>>

sizeVars == <<szLen, szOut>>

nodeVars == <<ndKind, ndPc, ndHeader, ndTrace, ndFate, ndCount, ndPeers, ndTasks,
              ndPoisoned, ndDropped, ndRunRes, ndCallbacks, ndInvoked, ndStreams, ndClosed>>

actorVars == <<aiIdentifier, aiResult>>

poisonVars == <<tq_poisoned, channels_poisoned, recovered>>

raceVars == <<cxKind, cxPeers, cxPc, cxName, cxAddr, cxRes, cxFound, cxReplaced>>

guardVars == <<gdFn, gdPc, gdHeld, gdTable, gdArg, gdSpawned>>

lockVars == <<lkPc, lkHeld, lkPoison, lkRet, lkCalls, lkPanics>>

nsVars == <<nsSent, nsWire, nsBuf, nsPc, nsLength, nsRecv, nsAhead>>

vars == <<regVars, frameVars, chanVars, hsVars, phVars, sizeVars, nodeVars, actorVars, poisonVars, raceVars, guardVars, lockVars, nsVars>>

\* What each subsystem leaves alone.
nonRegVars == <<frameVars, chanVars, hsVars, phVars, sizeVars, nodeVars, actorVars, poisonVars, raceVars, guardVars, lockVars, nsVars>>
nonFrameVars == <<regVars, chanVars, hsVars, phVars, sizeVars, nodeVars, actorVars, poisonVars, raceVars, guardVars, lockVars, nsVars>>
nonChanVars == <<frameVars, hsVars, phVars, sizeVars, nodeVars, actorVars, poisonVars, raceVars, guardVars, lockVars, nsVars>>
nonHsVars == <<regVars, frameVars, chanVars, phVars, sizeVars, nodeVars, actorVars, poisonVars, raceVars, guardVars, lockVars, nsVars>>
nonPhVars == <<regVars, frameVars, chanVars, hsVars, sizeVars, nodeVars, actorVars, poisonVars, raceVars, guardVars, lockVars, nsVars>>
nonSizeVars == <<regVars, frameVars, chanVars, hsVars, phVars, nodeVars, actorVars, poisonVars, raceVars, guardVars, lockVars, nsVars>>
nonNodeVars == <<regVars, frameVars, chanVars, hsVars, phVars, sizeVars, actorVars, poisonVars, raceVars, guardVars, lockVars, nsVars>>
nonActorVars == <<regVars, frameVars, chanVars, hsVars, phVars, sizeVars, nodeVars, poisonVars, raceVars, guardVars, lockVars, nsVars>>
nonPoisonVars == <<regVars, frameVars, chanVars, hsVars, phVars, sizeVars, nodeVars, actorVars, raceVars, guardVars, lockVars, nsVars>>
nonPoisonRegVars == <<frameVars, chanVars, hsVars, phVars, sizeVars, nodeVars, actorVars, raceVars, guardVars, lockVars, nsVars>>
nonRaceVars == <<regVars, frameVars, chanVars, hsVars, phVars, sizeVars, nodeVars, actorVars, poisonVars, guardVars, lockVars, nsVars>>
nonGuardVars == <<regVars, frameVars, chanVars, hsVars, phVars, sizeVars, nodeVars, actorVars, poisonVars, raceVars, lockVars, nsVars>>
nonLockVars == <<regVars, frameVars, chanVars, hsVars, phVars, sizeVars, nodeVars, actorVars, poisonVars, raceVars, guardVars, nsVars>>
nonNsVars == <<regVars, frameVars, chanVars, hsVars, phVars, sizeVars, nodeVars, actorVars, poisonVars, raceVars, guardVars, lockVars>>

(***************************************************************************)
(* Small helpers.                                                          *)
(***************************************************************************)
Range(s) == {s[i] : i \in 1..Len(s)}

None == [tag |-> "None"]
Some(v) == [tag |-> "Some", val |-> v]

(***************************************************************************)
(* slotmap::SlotMap as TimeoutChannels uses it.  Slot i holds a version    *)
(* (odd while occupied, even while vacant) and a value; vacant slots form  *)
(* a LIFO free list.  A key is <<index, version>>.  val = 0 is a vacant    *)
(* slot.                                                                   *)
(***************************************************************************)
EmptySlotMap == [slots |-> <<>>, free |-> <<>>]

SlotContains(sm, key) ==
    /\ key[1] \in 1..Len(sm.slots)
    /\ sm.slots[key[1]].version = key[2]

SlotKeys(sm) ==
    {<<i, sm.slots[i].version>> : i \in {j \in 1..Len(sm.slots) : sm.slots[j].val # 0}}

SlotGet(sm, key) == IF SlotContains(sm, key) THEN sm.slots[key[1]].val ELSE 0

\* version | 1
OrOne(n) == IF n % 2 = 0 THEN n + 1 ELSE n

\* SlotMap::insert: reuse the head of the free list, or push a new slot.
SlotInsert(sm, v) ==
    IF sm.free # <<>>
    THEN LET i == Head(sm.free)
             ver == OrOne(sm.slots[i].version)
         IN [map |-> [slots |-> [sm.slots EXCEPT ![i] = [version |-> ver, val |-> v]],
                      free |-> Tail(sm.free)],
             key |-> <<i, ver>>]
    ELSE [map |-> [slots |-> Append(sm.slots, [version |-> 1, val |-> v]),
                   free |-> sm.free],
          key |-> <<Len(sm.slots) + 1, 1>>]

\* A removal that forgets to bump the slot's version.
SlotRemoveNoBump(sm, key) ==
    IF key[1] \in 1..Len(sm.slots) /\ sm.slots[key[1]].version = key[2]
          /\ sm.slots[key[1]].val # 0
    THEN [map |-> [slots |-> [sm.slots EXCEPT ![key[1]] =
                                 [version |-> @.version, val |-> 0]],
                   free |-> <<key[1]>> \o sm.free],
          val |-> sm.slots[key[1]].val]
    ELSE [map |-> sm, val |-> 0]

\* A removal that looks at the slot index only, not at the version.
SlotRemoveAnyVersion(sm, key) ==
    IF key[1] \in 1..Len(sm.slots) /\ sm.slots[key[1]].val # 0
    THEN [map |-> [slots |-> [sm.slots EXCEPT ![key[1]] =
                                 [version |-> @.version + 1, val |-> 0]],
                   free |-> <<key[1]>> \o sm.free],
          val |-> sm.slots[key[1]].val]
    ELSE [map |-> sm, val |-> 0]

\* SlotMap::remove: take the value out if the key is current, bump the
\* version and push the slot on the free list.  (The version is a u32 that
\* wraps after 2^32 steps; MaxAdds keeps it far below that.)
SlotRemove(sm, key) ==
    IF SlotContains(sm, key)
    THEN [map |-> [slots |-> [sm.slots EXCEPT ![key[1]] =
                                 [version |-> @.version + 1, val |-> 0]],
                   free |-> <<key[1]>> \o sm.free],
          val |-> sm.slots[key[1]].val]
    ELSE [map |-> sm, val |-> 0]

(***************************************************************************)
(* The deque.                                                              *)
(***************************************************************************)
QueueKeys(q) == {q[i].key : i \in 1..Len(q)}

\* Index of the first entry with this key, 0 if none.
FirstIndex(q, key) ==
    IF \E i \in 1..Len(q) : q[i].key = key
    THEN CHOOSE i \in 1..Len(q) :
            /\ q[i].key = key
            /\ \A j \in 1..(i - 1) : q[j].key # key
    ELSE 0

RemoveAt(q, i) == SubSeq(q, 1, i - 1) \o SubSeq(q, i + 1, Len(q))

\* The loop of pop: remove the first entry that has the key, then stop.
RemoveFirstKey(q, key) ==
    LET i == FirstIndex(q, key) IN IF i = 0 THEN q ELSE RemoveAt(q, i)

\* An entry put in front of the others.
PushFront(q, item) == <<item>> \o q

\* VecDeque::push_back
PushBack(q, item) == Append(q, item)

\* item.0.elapsed() < self.timeout is false
Elapsed(item, t) == t - item.time >= Timeout

\* A tick that empties the queue whatever the age of its entries.
ExpiredAll(q, t) == Len(q)

\* The loop of tick: how many entries at the front have timed out.
RECURSIVE ExpiredPrefix(_, _)
ExpiredPrefix(q, t) ==
    IF q = <<>> THEN 0
    ELSE IF ~Elapsed(Head(q), t) THEN 0
    ELSE 1 + ExpiredPrefix(Tail(q), t)

\* A tick that leaves the slotmap alone.
RemoveNone(sm, q, n) == sm

\* channels.remove(item.1) for each of the first n entries of q.
RECURSIVE RemoveAll(_, _, _)
RemoveAll(sm, q, n) ==
    IF n = 0 THEN sm
    ELSE RemoveAll(SlotRemove(sm, Head(q).key).map, Tail(q), n - 1)

(***************************************************************************)
(* TimeoutChannels: state after new().                                     *)
(***************************************************************************)
Threads == 1..NThreads

NoPop == [key |-> <<0, 0>>, some |-> FALSE, live |-> FALSE]

RegIdle ==
    /\ channels = EmptySlotMap
    /\ timeout_queue = <<>>
    /\ tqLock = 0
    /\ now = 0
    /\ rpc = [t \in Threads |-> "idle"]
    /\ rarg = [t \in Threads |-> None]
    /\ oneshot = <<>>
    /\ issued = <<>>
    /\ gonePop = {}
    /\ goneTick = {}
    /\ lastPop = NoPop

\* What a Receiver sees once every Sender of channel c is gone unsent.
CloseAll(os, cs) ==
    [c \in 1..Len(os) |-> IF c \in cs /\ os[c].st = "open"
                           THEN [st |-> "closed", val |-> <<>>] ELSE os[c]]

(***************************************************************************)
(* TimeoutChannels::add, in two steps: lock timeout_queue; then, holding   *)
(* it, create the oneshot, insert the sender into the slotmap, take the    *)
(* insertion time and push (time, key) at the back.                        *)
(***************************************************************************)
AddLock(t) ==
    /\ rpc[t] = "idle"
    /\ tqLock = 0
    /\ Len(issued) < MaxAdds
    /\ tqLock' = t
    /\ rpc' = [rpc EXCEPT ![t] = "add"]
    /\ UNCHANGED <<channels, timeout_queue, now, rarg, oneshot, issued,
                   gonePop, goneTick, lastPop>>

AddInsert(t) ==
    /\ rpc[t] = "add"
    /\ LET c == Len(oneshot) + 1
           ins == SlotInsert(channels, c)
       IN /\ channels' = ins.map
          /\ timeout_queue' = PushBack(timeout_queue, [time |-> now, key |-> ins.key])
          /\ oneshot' = Append(oneshot, [st |-> "open", val |-> <<>>])
          /\ issued' = Append(issued, ins.key)
    /\ tqLock' = 0
    /\ rpc' = [rpc EXCEPT ![t] = "idle"]
    /\ UNCHANGED <<now, rarg, gonePop, goneTick, lastPop>>

(***************************************************************************)
(* TimeoutChannels::pop, in two steps: remove the key from the slotmap     *)
(* (returning None at once if it is absent); then lock timeout_queue and   *)
(* remove the first entry that carries the key.                            *)
(***************************************************************************)
PopRemove(t, key) ==
    /\ rpc[t] = "idle"
    /\ LET r == SlotRemove(channels, key)
       IN /\ channels' = r.map
          /\ lastPop' = [key |-> key, some |-> r.val # 0,
                         live |-> key \in Range(issued) /\ key \notin (gonePop \cup goneTick)]
          /\ IF r.val = 0
             THEN UNCHANGED <<rpc, rarg, gonePop>>
             ELSE /\ rpc' = [rpc EXCEPT ![t] = "pop"]
                  /\ rarg' = [rarg EXCEPT ![t] = [key |-> key, sender |-> r.val]]
                  /\ gonePop' = gonePop \cup {key}
    /\ UNCHANGED <<timeout_queue, tqLock, now, oneshot, issued, goneTick>>

PopQueue(t) ==
    /\ rpc[t] = "pop"
    /\ tqLock = 0
    /\ timeout_queue' = RemoveFirstKey(timeout_queue, rarg[t].key)
    /\ rpc' = [rpc EXCEPT ![t] = "sender"]
    /\ UNCHANGED <<channels, tqLock, now, rarg, oneshot, issued, gonePop, goneTick,
                   lastPop>>

(***************************************************************************)
(* TimeoutChannels::tick, in three steps: read the front of the queue      *)
(* (return if empty); sleep until front.0 + timeout and lock               *)
(* timeout_queue; lock channels and remove every timed out entry from the  *)
(* front of the queue and from the slotmap.                                *)
(***************************************************************************)
TickFront(t) ==
    /\ rpc[t] = "idle"
    /\ tqLock = 0
    /\ IF timeout_queue = <<>>
       THEN UNCHANGED <<rpc, rarg>>
       ELSE /\ rpc' = [rpc EXCEPT ![t] = "tick_sleep"]
            /\ rarg' = [rarg EXCEPT ![t] = [deadline |-> Head(timeout_queue).time + Timeout]]
    /\ UNCHANGED <<channels, timeout_queue, tqLock, now, oneshot, issued, gonePop,
                   goneTick, lastPop>>

TickWake(t) ==
    /\ rpc[t] = "tick_sleep"
    /\ now >= rarg[t].deadline
    /\ tqLock = 0
    /\ tqLock' = t
    /\ rpc' = [rpc EXCEPT ![t] = "tick_locked"]
    /\ UNCHANGED <<channels, timeout_queue, now, rarg, oneshot, issued, gonePop,
                   goneTick, lastPop>>

TickExpire(t) ==
    /\ rpc[t] = "tick_locked"
    /\ LET n == ExpiredPrefix(timeout_queue, now)
           dead == {timeout_queue[i].key : i \in 1..n}
           dropped == {k \in dead : SlotContains(channels, k)}
       IN /\ timeout_queue' = SubSeq(timeout_queue, n + 1, Len(timeout_queue))
          /\ channels' = RemoveAll(channels, timeout_queue, n)
          /\ goneTick' = goneTick \cup dropped
          \* the removed senders are dropped: their receivers see an error
          /\ oneshot' = CloseAll(oneshot, {SlotGet(channels, k) : k \in dropped})
    /\ tqLock' = 0
    /\ rpc' = [rpc EXCEPT ![t] = "idle"]
    /\ rarg' = [rarg EXCEPT ![t] = None]
    /\ UNCHANGED <<now, issued, gonePop, lastPop>>

(***************************************************************************)
(* The caller of pop holds the Sender: it sends a value through it or      *)
(* drops it.                                                               *)
(***************************************************************************)
RegBodies == {<<>>, <<7>>}

\* A responder that is dropped instead of being sent through.
SenderSendDrops(t, body) ==
    /\ rpc[t] = "sender"
    /\ oneshot' = CloseAll(oneshot, {rarg[t].sender})
    /\ rpc' = [rpc EXCEPT ![t] = "idle"]
    /\ rarg' = [rarg EXCEPT ![t] = None]
    /\ UNCHANGED <<channels, timeout_queue, tqLock, now, issued, gonePop,
                   goneTick, lastPop>>

\* Sender::send(body): the value reaches the Receiver unless it is gone.
SenderSend(t, body) ==
    /\ rpc[t] = "sender"
    /\ oneshot' = [oneshot EXCEPT ![rarg[t].sender] =
                      IF @.st = "open" THEN [st |-> "sent", val |-> body] ELSE @]
    /\ rpc' = [rpc EXCEPT ![t] = "idle"]
    /\ rarg' = [rarg EXCEPT ![t] = None]
    /\ UNCHANGED <<channels, timeout_queue, tqLock, now, issued, gonePop,
                   goneTick, lastPop>>

SenderDrop(t) ==
    /\ rpc[t] = "sender"
    /\ oneshot' = CloseAll(oneshot, {rarg[t].sender})
    /\ rpc' = [rpc EXCEPT ![t] = "idle"]
    /\ rarg' = [rarg EXCEPT ![t] = None]
    /\ UNCHANGED <<channels, timeout_queue, tqLock, now, issued, gonePop,
                   goneTick, lastPop>>

\* Time passes.
AdvanceTime ==
    /\ now + TimeStep <= MaxTime
    /\ now' = now + TimeStep
    /\ UNCHANGED <<channels, timeout_queue, tqLock, rpc, rarg, oneshot, issued,
                   gonePop, goneTick, lastPop>>

(***************************************************************************)
(* The registry alone, called from NThreads threads: any interleaving of   *)
(* add, pop (of any key add has returned) and tick.                        *)
(***************************************************************************)
RegNext ==
    \/ \E t \in Threads : AddLock(t) /\ UNCHANGED nonRegVars
    \/ \E t \in Threads : AddInsert(t) /\ UNCHANGED nonRegVars
    \/ \E t \in Threads : \E key \in Range(issued) : PopRemove(t, key) /\ UNCHANGED nonRegVars
    \/ \E t \in Threads : PopQueue(t) /\ UNCHANGED nonRegVars
    \/ \E t \in Threads : TickFront(t) /\ UNCHANGED nonRegVars
    \/ \E t \in Threads : TickWake(t) /\ UNCHANGED nonRegVars
    \/ \E t \in Threads : TickExpire(t) /\ UNCHANGED nonRegVars
    \/ \E t \in Threads : \E body \in RegBodies : SenderSend(t, body) /\ UNCHANGED nonRegVars
    \/ \E t \in Threads : SenderDrop(t) /\ UNCHANGED nonRegVars
    \/ AdvanceTime /\ UNCHANGED nonRegVars

FrameIdle ==
    /\ fSent = <<>>
    /\ fWire = <<>>
    /\ fFinished = FALSE
    /\ fPhase = "len"
    /\ fBuf = <<>>
    /\ fNeed = 4
    /\ fRecv = <<>>
    /\ fSplit = FALSE
    /\ fCut = <<>>

\* A Channel after Channel::new, nothing sent or received.
ChanIdle ==
    /\ calls = <<>>
    /\ outWire = <<>>
    /\ inWire = <<>>
    /\ inClosed = FALSE
    /\ error_counter = 0
    /\ runBody = <<>>
    /\ delivered = <<>>
    /\ remoteEchoes = TRUE
    /\ answered = {}
    /\ forged = 0
    /\ recvLog = <<>>
    /\ discarded = <<>>

\* The two sides of a handshake before either function is called.
Sides == {"I", "A"}

HsIdle ==
    /\ hsScenario = "paired"
    /\ hsName = [s \in Sides |-> IF s = "I" THEN "n1" ELSE "n2"]
    /\ hsPeers = [s \in Sides |-> {}]
    /\ hsPc = [s \in Sides |-> "start"]
    /\ hsIn = [s \in Sides |-> <<>>]
    /\ hsInFinished = [s \in Sides |-> FALSE]
    /\ hsLog = [s \in Sides |-> <<>>]
    /\ hsPeerName = [s \in Sides |-> ""]
    /\ hsRes = [s \in Sides |-> None]
    /\ hsValidatorInvoked = [s \in Sides |-> FALSE]
    /\ hsClosed = [s \in Sides |-> FALSE]
    /\ hsEnvCount = [s \in Sides |-> 0]
    /\ hsVCount = [s \in Sides |-> 0]

\* The two nodes of a peer handshake before handshake() is called.
Nodes == {"client", "server"}

PhIdle ==
    /\ phName = [n \in Nodes |-> IF n = "client" THEN <<97>> ELSE <<98>>]
    /\ phPeers = [n \in Nodes |-> {}]
    /\ phPeers0 = [n \in Nodes |-> {}]
    /\ phPc = [n \in Nodes |-> "start"]
    /\ phWire = [n \in Nodes |-> <<>>]
    /\ phGone = [n \in Nodes |-> FALSE]
    /\ phBroken = FALSE
    /\ phRes = [n \in Nodes |-> None]
    /\ phFound = [n \in Nodes |-> FALSE]
    /\ phPeerName = [n \in Nodes |-> <<>>]
    /\ phLost = FALSE

\* No payload of a given length has been handed to send.
SizeIdle ==
    /\ szLen = <<0, 0, 0>>
    /\ szOut = None

\* A Palantir node after new(): no session, no task, no callback.
NodeIdle ==
    /\ ndKind = "Palantir"
    /\ ndPc = "idle"
    /\ ndHeader = <<>>
    /\ ndTrace = <<>>
    /\ ndFate = "none"
    /\ ndCount = 0
    /\ ndPeers = {}
    /\ ndTasks = <<>>
    /\ ndPoisoned = FALSE
    /\ ndDropped = FALSE
    /\ ndRunRes = None
    /\ ndCallbacks = <<>>
    /\ ndInvoked = <<>>
    /\ ndStreams = <<>>
    /\ ndClosed = {}

\* ActorID::from_identifier (actor_id.rs): nothing has happened.
ActorIdle ==
    /\ aiIdentifier = [variant |-> "Local", id |-> 0]
    /\ aiResult = <<>>

\* TimeoutChannels::recover (timeout.rs): nothing has happened.
PoisonIdle ==
    /\ tq_poisoned = FALSE
    /\ channels_poisoned = FALSE
    /\ recovered = FALSE

\* The calls that run concurrently and the names their counterparties present.
Calls == 1..MaxHandshakes
RaceNames == {"a", "b"}

\* Handshakes running concurrently on one node: none has been called.
RaceIdle ==
    /\ cxKind = "handshake"
    /\ cxPeers = [n \in RaceNames |-> 0]
    /\ cxPc = [h \in Calls |-> "start"]
    /\ cxName = [h \in Calls |-> ""]
    /\ cxAddr = [h \in Calls |-> 0]
    /\ cxRes = [h \in Calls |-> None]
    /\ cxFound = [h \in Calls |-> FALSE]
    /\ cxReplaced = FALSE

GuardTasks == 1..MaxGuardTasks

\* Lock guards of Peer across await points: no task has started.
GuardIdle ==
    /\ gdFn = [t \in GuardTasks |-> "handshake"]
    /\ gdPc = [t \in GuardTasks |-> "start"]
    /\ gdHeld = [t \in GuardTasks |-> {}]
    /\ gdTable = {}
    /\ gdArg = [t \in GuardTasks |-> ""]
    /\ gdSpawned = 0

Mutexes == {"timeout_queue", "channels"}

\* The two mutexes of TimeoutChannels: free and not poisoned.
LockIdle ==
    /\ lkPc = [t \in Threads |-> "idle"]
    /\ lkHeld = [t \in Threads |-> <<>>]
    /\ lkPoison = [m \in Mutexes |-> FALSE]
    /\ lkRet = [t \in Threads |-> ""]
    /\ lkCalls = 0
    /\ lkPanics = 0

\* WTNamespace send_raw and recv_raw: nothing has happened.
NsIdle ==
    /\ nsSent = <<>>
    /\ nsWire = <<>>
    /\ nsBuf = <<>>
    /\ nsPc = "length"
    /\ nsLength = 0
    /\ nsRecv = <<>>
    /\ nsAhead = FALSE

RegInit == RegIdle /\ FrameIdle /\ ChanIdle /\ HsIdle /\ PhIdle /\ SizeIdle /\ NodeIdle /\ ActorIdle /\ PoisonIdle /\ RaceIdle /\ GuardIdle /\ LockIdle /\ NsIdle

SpecReg == RegInit /\ [][RegNext]_vars

(***************************************************************************)
(* Claims about the registry.                                              *)
(***************************************************************************)
\* C4: across any sequence of add, pop and tick on one TimeoutChannels,
\* every key returned by add differs from every key returned by an earlier
\* add, also when the slot of a removed entry is reused.
C4_KeysUnique ==
    \A i, j \in 1..Len(issued) : i # j => issued[i] # issued[j]

\* One slot has been handed out three times: after a pop and after a tick.
C4_SlotReused ==
    \E i, j, k \in 1..Len(issued) :
        /\ i < j /\ j < k
        /\ issued[i][1] = issued[j][1] /\ issued[j][1] = issued[k][1]
        /\ issued[i] \in gonePop
        /\ issued[j] \in goneTick

\* C5: for any key returned by add, pop(key) returns Some exactly when the
\* entry has not been removed by an earlier pop and has not been expired by
\* tick; once pop has returned Some the entry is in neither the slotmap nor
\* the deque (so a second pop of the key returns None); and the two steps
\* of pop change no other entry of the slotmap or of the deque.
C5_PopSomeIffLive ==
    /\ [](lastPop # NoPop => (lastPop.some <=> lastPop.live))
    /\ [](\A t \in Threads : rpc[t] = "sender" =>
              /\ ~SlotContains(channels, rarg[t].key)
              /\ rarg[t].key \notin QueueKeys(timeout_queue))
    /\ [][\A t \in Threads :
            /\ \A key \in Range(issued) :
                 PopRemove(t, key) =>
                    /\ SlotKeys(channels') = SlotKeys(channels) \ {key}
                    /\ \A k \in SlotKeys(channels') : SlotGet(channels', k) = SlotGet(channels, k)
                    /\ timeout_queue' = timeout_queue
            /\ PopQueue(t) =>
                    /\ channels' = channels
                    /\ timeout_queue' =
                          SelectSeq(timeout_queue, LAMBDA e : e.key # rarg[t].key)]_vars

\* A pop has taken the sender of a key, a later pop of the same key has
\* answered None, and tick has expired another entry.
C5_SecondPopNone ==
    /\ lastPop.key \in gonePop
    /\ ~lastPop.some
    /\ goneTick # {}
    /\ \E t \in Threads : rpc[t] = "sender"

\* How many entries of the deque carry the key.
Occurrences(q, key) == Cardinality({i \in 1..Len(q) : q[i].key = key})

\* C23: under any interleaving of add, pop and tick, whenever the
\* timeout_queue mutex is not held, every key of the slotmap appears exactly
\* once in the deque.
C23_SlotKeysOnceInQueue ==
    tqLock = 0 => \A k \in SlotKeys(channels) : Occurrences(timeout_queue, k) = 1

\* The mutex is free, the slotmap holds a key, a pop has taken a key out of
\* the slotmap and not yet out of the deque, and tick has expired an entry.
C23_FreeBetweenPopSteps ==
    /\ tqLock = 0
    /\ SlotKeys(channels) # {}
    /\ \E t \in Threads : rpc[t] = "pop" /\ rarg[t].key \in QueueKeys(timeout_queue)
    /\ goneTick # {}

\* C24: the insertion instants of the deque are non-decreasing from front
\* to back in every reachable state.
C24_QueueTimesAscend ==
    \A i, j \in 1..Len(timeout_queue) :
        i < j => timeout_queue[i].time <= timeout_queue[j].time

\* The deque holds entries of two different instants after a pop has
\* removed an entry.
C24_TwoInstantsAfterPop ==
    /\ Len(timeout_queue) >= 2
    /\ timeout_queue[1].time < timeout_queue[Len(timeout_queue)].time
    /\ \E k \in gonePop : k \notin QueueKeys(timeout_queue)

\* C25: tick removes entries only from the front of the deque and only
\* entries whose deadline has passed, and removes them from the slotmap as
\* well; when it returns after its sleep, the front entry of the deque, if
\* there is one, had a deadline that had not passed when it was examined.
C25_TickRemovesExpiredFront ==
    [][\A t \in Threads : TickExpire(t) =>
          LET n == Len(timeout_queue) - Len(timeout_queue')
          IN /\ n >= 0
             /\ timeout_queue' = SubSeq(timeout_queue, n + 1, Len(timeout_queue))
             /\ \A i \in 1..n :
                   /\ now >= timeout_queue[i].time + Timeout
                   /\ ~SlotContains(channels', timeout_queue[i].key)
             /\ SlotKeys(channels') = SlotKeys(channels) \ {timeout_queue[i].key : i \in 1..n}
             /\ timeout_queue' # <<>> => now < timeout_queue'[1].time + Timeout]_vars

\* A tick has expired an entry and returned with a younger entry at the
\* front of the deque.
C25_TickLeftYoungerFront ==
    /\ goneTick # {}
    /\ timeout_queue # <<>>
    /\ \A t \in Threads : rpc[t] = "idle"
    /\ now = MaxTime

\* The threads that hold the Sender of oneshot channel c.
Holders(c) == {t \in Threads : rpc[t] \in {"pop", "sender"} /\ rarg[t].sender = c}

\* C26: under any interleaving of pop and tick on the same key, the
\* sender is obtained by at most one of them and by at most one caller of
\* pop; the receiver gets the bytes sent by the caller of pop if pop
\* obtained the sender, and a receive error if tick removed the entry
\* first, never both.
C26_PopXorTick ==
    /\ [](gonePop \cap goneTick = {})
    /\ [](\A c \in 1..Len(oneshot) :
            /\ Cardinality(Holders(c)) <= 1
            /\ Holders(c) # {} => issued[c] \in gonePop /\ oneshot[c].st = "open"
            /\ issued[c] \in goneTick => oneshot[c].st = "closed"
            /\ oneshot[c].st = "sent" => issued[c] \in gonePop)
    /\ [][\A t \in Threads :
            /\ \A key \in Range(issued) :
                  (PopRemove(t, key) /\ lastPop'.some) => key \notin (gonePop \cup goneTick)
            /\ \A body \in RegBodies :
                  SenderSend(t, body) =>
                     oneshot'[rarg[t].sender] = [st |-> "sent", val |-> body]]_vars

\* One key was answered through pop, another one was expired by tick while
\* a pop of it came too late.
C26_OnePoppedOneExpired ==
    /\ \E c \in 1..Len(oneshot) : oneshot[c].st = "sent" /\ oneshot[c].val # <<>>
    /\ lastPop.key \in goneTick
    /\ ~lastPop.some

(***************************************************************************)
(* The wire format: postcard's encoding of PeerMessage                     *)
(* (src/src/peer/message.rs).  A byte string is a sequence of 0..255.      *)
(***************************************************************************)
\* postcard's varint of an unsigned integer: 7 bits per byte, low first.
RECURSIVE Varint(_)
Varint(n) == IF n < 128 THEN <<n>> ELSE <<(n % 128) + 128>> \o Varint(n \div 128)

ParseFail == [ok |-> FALSE, val |-> 0, next |-> 0]

\* Read a u32 varint at position pos (at most five bytes).
RECURSIVE ParseVarint(_, _, _)
ParseVarint(b, pos, depth) ==
    IF pos > Len(b) \/ depth > 5 THEN ParseFail
    ELSE IF b[pos] < 128 THEN [ok |-> TRUE, val |-> b[pos], next |-> pos + 1]
    ELSE LET r == ParseVarint(b, pos + 1, depth + 1)
         IN IF r.ok THEN [ok |-> TRUE, val |-> (b[pos] - 128) + 128 * r.val, next |-> r.next]
            ELSE ParseFail

\* Read a length-prefixed byte vector (Vec<u8>) at position pos.
ParseBytes(b, pos) ==
    LET n == ParseVarint(b, pos, 1)
    IN IF ~n.ok \/ n.next + n.val - 1 > Len(b) THEN ParseFail
       ELSE [ok |-> TRUE, val |-> SubSeq(b, n.next, n.next + n.val - 1),
             next |-> n.next + n.val]

\* Read a String: a byte vector that is valid UTF-8 (here: ASCII).
ParseString(b, pos) ==
    LET r == ParseBytes(b, pos)
    IN IF r.ok /\ \A i \in 1..Len(r.val) : r.val[i] < 128 THEN r ELSE ParseFail

\* The messages.  Names and bodies are byte strings, a RequestID is a
\* slotmap key <<index, version>>.
MInitialize(purpose) == [kind |-> "Initialize", purpose |-> purpose]
MHandshake(name) == [kind |-> "Handshake", name |-> name]
MHandshakeResponse(r) == [kind |-> "HandshakeResponse", response |-> r]
MRequest(id, body) == [kind |-> "Request", request_id |-> id, body |-> body]
MResponse(id, body) == [kind |-> "Response", request_id |-> id, body |-> body]

PurposeHandshake == [tag |-> "Handshake"]
PurposeRequestResponse(actor) == [tag |-> "RequestResponse", actor |-> actor]
ActorNumeric(n) == [tag |-> "ID", id |-> n]
ActorNamed(name) == [tag |-> "Name", name |-> name]

SerializeActor(a) ==
    IF a.tag = "ID" THEN <<0>> \o Varint(a.id)
    ELSE <<1>> \o Varint(Len(a.name)) \o a.name

\* slotmap's KeyData is written as its index and its version.
SerializeKey(k) == Varint(k[1]) \o Varint(k[2])

\* postcard::to_allocvec(&PeerMessage): the variant's index, then its
\* fields in order.
Serialize(m) ==
    CASE m.kind = "Initialize" ->
            <<0>> \o (IF m.purpose.tag = "Handshake" THEN <<0>>
                      ELSE <<1>> \o SerializeActor(m.purpose.actor))
      [] m.kind = "Handshake" -> <<1>> \o Varint(Len(m.name)) \o m.name
      [] m.kind = "HandshakeResponse" ->
            <<2>> \o (IF m.response = "Ok" THEN <<0>> ELSE <<1>>)
      [] m.kind = "Request" ->
            <<3>> \o SerializeKey(m.request_id) \o Varint(Len(m.body)) \o m.body
      [] m.kind = "Response" ->
            <<4>> \o SerializeKey(m.request_id) \o Varint(Len(m.body)) \o m.body

DecodeError == [kind |-> "DecodeError"]

ParseActor(b, pos) ==
    LET tag == ParseVarint(b, pos, 1)
    IN IF ~tag.ok THEN ParseFail
       ELSE IF tag.val = 0
       THEN LET n == ParseVarint(b, tag.next, 1)
            IN IF n.ok THEN [ok |-> TRUE, val |-> ActorNumeric(n.val), next |-> n.next]
               ELSE ParseFail
       ELSE IF tag.val = 1
       THEN LET n == ParseString(b, tag.next)
            IN IF n.ok THEN [ok |-> TRUE, val |-> ActorNamed(n.val), next |-> n.next]
               ELSE ParseFail
       ELSE ParseFail

\* slotmap reads a KeyData back as index and version, and forces the
\* version to be odd.
ParseKey(b, pos) ==
    LET idx == ParseVarint(b, pos, 1)
        ver == IF idx.ok THEN ParseVarint(b, idx.next, 1) ELSE ParseFail
    IN IF ver.ok THEN [ok |-> TRUE, val |-> <<idx.val, OrOne(ver.val)>>, next |-> ver.next]
       ELSE ParseFail

ParseKeyed(b, pos, kind) ==
    LET k == ParseKey(b, pos)
        body == IF k.ok THEN ParseBytes(b, k.next) ELSE ParseFail
    IN IF body.ok
       THEN [kind |-> kind, request_id |-> k.val, body |-> body.val]
       ELSE DecodeError

\* postcard::from_bytes::<PeerMessage>: bytes after the message are ignored.
Deserialize(b) ==
    LET tag == ParseVarint(b, 1, 1)
    IN IF ~tag.ok THEN DecodeError
       ELSE CASE tag.val = 0 ->
                   LET p == ParseVarint(b, tag.next, 1)
                   IN IF ~p.ok THEN DecodeError
                      ELSE IF p.val = 0 THEN MInitialize(PurposeHandshake)
                      ELSE IF p.val = 1
                      THEN LET a == ParseActor(b, p.next)
                           IN IF a.ok THEN MInitialize(PurposeRequestResponse(a.val))
                              ELSE DecodeError
                      ELSE DecodeError
              [] tag.val = 1 ->
                   LET n == ParseString(b, tag.next)
                   IN IF n.ok THEN MHandshake(n.val) ELSE DecodeError
              [] tag.val = 2 ->
                   LET r == ParseVarint(b, tag.next, 1)
                   IN IF ~r.ok THEN DecodeError
                      ELSE IF r.val = 0 THEN MHandshakeResponse("Ok")
                      ELSE IF r.val = 1 THEN MHandshakeResponse("NameTaken")
                      ELSE DecodeError
              [] tag.val = 3 -> ParseKeyed(b, tag.next, "Request")
              [] tag.val = 4 -> ParseKeyed(b, tag.next, "Response")
              [] OTHER -> DecodeError

(***************************************************************************)
(* The framed codec (src/src/frame.rs): a u32 little-endian length, then   *)
(* the payload.                                                            *)
(***************************************************************************)
\* A prefix written high byte first.
BE32(n) == <<(n \div 16777216) % 256, (n \div 65536) % 256, (n \div 256) % 256, n % 256>>

\* len.to_le_bytes()
LE32(n) == <<n % 256, (n \div 256) % 256, (n \div 65536) % 256, (n \div 16777216) % 256>>

\* u32::from_le_bytes(length)
FromLE32(b) == b[1] + 256 * b[2] + 65536 * b[3] + 16777216 * b[4]

\* A conversion that also refuses u32::MAX itself.
FitsBelowU32Max(above, hi, lo) == above = 0 /\ ~(hi = 65535 /\ lo = 65535)

\* u32::try_from(data.len()).is_ok(), the length given as two 16-bit halves
\* of its low 32 bits and what lies above them.
FitsU32(above, hi, lo) == above = 0 /\ hi <= 65535 /\ lo <= 65535

\* The frame SendFramed::send writes for a payload, or the error it returns.
SendFrame(data) ==
    IF FitsU32(0, Len(data) \div 65536, Len(data) % 65536)
    THEN [ok |-> TRUE, frame |-> LE32(Len(data)) \o data]
    ELSE [ok |-> FALSE, frame |-> <<>>]

\* A recv whose InvalidEncoding error loses the first byte of the payload.
RecvResultShort(data) ==
    LET m == Deserialize(data)
    IN IF m.kind = "DecodeError" THEN [tag |-> "InvalidEncoding", packet |-> Tail(data)]
       ELSE [tag |-> "Ok", msg |-> m]

\* What recv returns for a complete payload:
\* postcard::from_bytes(&data).map_err(|_| InvalidEncoding { packet: data })
RecvResult(data) ==
    LET m == Deserialize(data)
    IN IF m.kind = "DecodeError" THEN [tag |-> "InvalidEncoding", packet |-> data]
       ELSE [tag |-> "Ok", msg |-> m]

\* The payloads sent with SendFramed::<PeerMessage>::send.
FrameMsgs ==
    {MRequest(<<1, 1>>, <<>>), MResponse(<<1, 3>>, <<7, 9>>), MHandshake(<<97>>),
     MInitialize(PurposeRequestResponse(ActorNumeric(200)))}
\* Payloads written by a peer that does not speak PeerMessage.
RawPayloads == {<<9>>, <<3, 1>>}

\* SendFramed::send(packet)
FrameSend(m) ==
    /\ ~fFinished
    /\ Len(fSent) < MaxFrames
    /\ LET data == Serialize(m)
           r == SendFrame(data)
       IN /\ r.ok
          /\ fWire' = fWire \o r.frame
          /\ fSent' = Append(fSent, [typed |-> TRUE, msg |-> m, data |-> data])
    /\ UNCHANGED <<fFinished, fPhase, fBuf, fNeed, fRecv, fSplit, fCut, nonFrameVars>>

\* A frame whose payload is not a PeerMessage.
FrameSendRaw(data) ==
    /\ ~fFinished
    /\ Len(fSent) < MaxFrames
    /\ fWire' = fWire \o SendFrame(data).frame
    /\ fSent' = Append(fSent, [typed |-> FALSE, msg |-> DecodeError, data |-> data])
    /\ UNCHANGED <<fFinished, fPhase, fBuf, fNeed, fRecv, fSplit, fCut, nonFrameVars>>

\* The sending end writes the prefix of a frame of n bytes and k < n bytes
\* of its payload, and the stream finishes there.
FrameSendCut(n, k) ==
    /\ ~fFinished
    /\ k < n
    /\ fWire' = fWire \o LE32(n) \o [i \in 1..k |-> 9]
    /\ fCut' = <<n, k>>
    /\ fFinished' = TRUE
    /\ UNCHANGED <<fSent, fPhase, fBuf, fNeed, fRecv, fSplit, nonFrameVars>>

\* SendFramed::close()
FrameFinish ==
    /\ ~fFinished
    /\ fFinished' = TRUE
    /\ UNCHANGED <<fSent, fWire, fPhase, fBuf, fNeed, fRecv, fSplit, fCut, nonFrameVars>>

\* RecvFramed::recv, one read of the transport at a time: the read hands
\* over n of the bytes read_exact still misses.  Once the four length bytes
\* are there the payload is asked for; once the payload is there it is
\* deserialized and recv returns.
FrameRead(n) ==
    /\ Len(fRecv) <= MaxFrames
    /\ n \in 1..Len(fWire)
    /\ n <= fNeed - Len(fBuf)
    /\ fWire' = SubSeq(fWire, n + 1, Len(fWire))
    /\ fSplit' = (fSplit \/ n < fNeed - Len(fBuf))
    /\ LET buf == fBuf \o SubSeq(fWire, 1, n)
       IN IF Len(buf) < fNeed
          THEN /\ fBuf' = buf
               /\ UNCHANGED <<fPhase, fNeed, fRecv>>
          ELSE IF fPhase = "len" /\ FromLE32(buf) > 0
          THEN /\ fPhase' = "data"
               /\ fNeed' = FromLE32(buf)
               /\ fBuf' = <<>>
               /\ UNCHANGED fRecv
          ELSE /\ fPhase' = "len"
               /\ fNeed' = 4
               /\ fBuf' = <<>>
               /\ fRecv' = Append(fRecv, RecvResult(IF fPhase = "len" THEN <<>> ELSE buf))
    /\ UNCHANGED <<fSent, fFinished, fCut, nonFrameVars>>

\* read_exact finds the stream finished before the buffer is full:
\* FinishedEarly(received) becomes TransmissionEndedEarly with
\* expected_size: 4, for the length and for the payload alike.
FrameEndedEarly ==
    /\ Len(fRecv) <= MaxFrames
    /\ fFinished
    /\ fWire = <<>>
    /\ fRecv' = Append(fRecv, [tag |-> "TransmissionEndedEarly", expected_size |-> 4,
                               received_size |-> Len(fBuf),
                               reason |-> IF fPhase = "len" THEN "read frame length"
                                          ELSE "read frame data"])
    /\ fPhase' = "len"
    /\ fNeed' = 4
    /\ fBuf' = <<>>
    /\ UNCHANGED <<fSent, fWire, fFinished, fSplit, fCut, nonFrameVars>>

FrameNext ==
    \/ \E m \in FrameMsgs : FrameSend(m)
    \/ \E data \in RawPayloads : FrameSendRaw(data)
    \/ \E n \in 1..MaxCut : \E k \in 0..(MaxCut - 1) : FrameSendCut(n, k)
    \/ FrameFinish
    \/ \E n \in 1..MaxChunk : FrameRead(n)
    \/ FrameEndedEarly

FrameInit == FrameIdle /\ RegIdle /\ ChanIdle /\ HsIdle /\ PhIdle /\ SizeIdle /\ NodeIdle /\ ActorIdle /\ PoisonIdle /\ RaceIdle /\ GuardIdle /\ LockIdle /\ NsIdle

SpecFrame == FrameInit /\ [][FrameNext]_vars

\* C6: for any sequence of payloads sent with SendFramed::send on one
\* stream, the successive recv calls on the other end return the identical
\* payloads in the same order, whatever way the transport splits the bytes
\* into reads: the i-th recv returns Ok with the i-th payload sent, and once
\* every written byte has been read every frame has been returned.
C6_FramesRoundTrip ==
    /\ \A i \in 1..Len(fRecv) :
          (i <= Len(fSent) /\ fSent[i].typed) => fRecv[i] = [tag |-> "Ok", msg |-> fSent[i].msg]
    /\ fWire = <<>> => Len(fRecv) >= Len(fSent)

\* Two different payloads have come out, one of them with an empty body,
\* after a read that returned only part of what was asked for.
C6_TwoFramesSplitReads ==
    /\ Len(fRecv) = 2
    /\ fSplit
    /\ fRecv[1].tag = "Ok" /\ fRecv[2].tag = "Ok"
    /\ fRecv[1].msg # fRecv[2].msg
    /\ fRecv[2].msg = MRequest(<<1, 1>>, <<>>)

\* C21: when a frame's length prefix announces n payload bytes and the
\* stream finishes after k < n of them, recv fails with
\* TransmissionEndedEarly whose expected size is n and whose received size
\* is k.
C21_EndedEarlyReportsSizes ==
    \A i \in 1..Len(fRecv) :
        (fRecv[i].tag = "TransmissionEndedEarly" /\ fRecv[i].reason = "read frame data") =>
            /\ fCut # <<>>
            /\ fRecv[i].expected_size = fCut[1]
            /\ fRecv[i].received_size = fCut[2]

\* C33: after recv fails with InvalidEncoding for one frame, the error
\* carries exactly that frame's payload bytes, and the next recv returns the
\* next frame sent, correctly decoded: nothing of the failed frame affects
\* the frames after it.
C33_InvalidEncodingIsolated ==
    \A i \in 1..Len(fRecv) :
        (i <= Len(fSent) /\ fRecv[i].tag = "InvalidEncoding") =>
            /\ ~fSent[i].typed
            /\ fRecv[i].packet = fSent[i].data
            /\ (i + 1 <= Len(fRecv) /\ i + 1 <= Len(fSent)) =>
                   fRecv[i + 1] = IF fSent[i + 1].typed
                                  THEN [tag |-> "Ok", msg |-> fSent[i + 1].msg]
                                  ELSE [tag |-> "InvalidEncoding", packet |-> fSent[i + 1].data]

\* The first recv failed with InvalidEncoding on a two-byte payload and the
\* second returned the message sent after it, with a read that split a frame.
C33_DecodedAfterInvalid ==
    /\ Len(fRecv) = 2
    /\ fRecv[1] = [tag |-> "InvalidEncoding", packet |-> <<3, 1>>]
    /\ fRecv[2] = [tag |-> "Ok", msg |-> MResponse(<<1, 3>>, <<7, 9>>)]
    /\ fSplit

(***************************************************************************)
(* SendFramed::send at the size limit.  A payload near 2^32 bytes is not   *)
(* built: send is followed with the payload's length alone, a usize kept   *)
(* as what lies above its low 32 bits and the two 16-bit halves of those.  *)
(***************************************************************************)
\* The halves of a length that are worth telling apart.
HalfEdges == {0, 1, 255, 256, 65534, 65535}

\* len + 4, the size of the frame: frame = data_len.to_vec(); frame.extend(&data)
FrameSize(len) ==
    LET lo == len[3] + 4
        hi == len[2] + lo \div 65536
    IN <<len[1] + hi \div 65536, hi % 65536, lo % 65536>>

\* What send does with a payload of that length: the ExceedsSizeLimit error
\* of u32::try_from, or the prefix len.to_le_bytes() and write_all of the
\* frame, which the stream takes or fails.
SendOfLength(len, written) ==
    IF ~FitsU32(len[1], len[2], len[3])
    THEN [tag |-> "ExceedsSizeLimit", packet_size |-> len, size_limit |-> <<0, 65535, 65535>>,
          prefix |-> <<>>, wrote |-> <<0, 0, 0>>]
    ELSE IF written
    THEN [tag |-> "Ok", packet_size |-> len, size_limit |-> <<>>,
          prefix |-> <<len[3] % 256, len[3] \div 256, len[2] % 256, len[2] \div 256>>,
          wrote |-> FrameSize(len)]
    ELSE [tag |-> "TransmissionError", packet_size |-> len, size_limit |-> <<>>,
          prefix |-> <<>>, wrote |-> <<0, 0, 0>>]

\* send(&packet) returns.
FrameSendSized ==
    /\ szOut = None
    /\ \E written \in BOOLEAN : szOut' = SendOfLength(szLen, written)
    /\ UNCHANGED szLen

SizeNext ==
    \/ FrameSendSized /\ UNCHANGED nonSizeVars

\* A packet whose serialized length is any of the lengths around the
\* multiples of 2^16 and 2^32.
SizeInit ==
    /\ szLen \in (0..MaxAbove) \X HalfEdges \X HalfEdges
    /\ szOut = None
    /\ RegIdle /\ FrameIdle /\ ChanIdle /\ HsIdle /\ PhIdle /\ NodeIdle /\ ActorIdle /\ PoisonIdle /\ RaceIdle /\ GuardIdle /\ LockIdle /\ NsIdle

SpecFrameSize == SizeInit /\ [][SizeNext]_vars

\* The length is u32::MAX or more.
AtLeastU32Max(len) == len[1] >= 1 \/ (len[2] = 65535 /\ len[3] = 65535)

Caller == 1
Runner == 2

Ok(body) == [tag |-> "Ok", body |-> body]
Err(e) == [tag |-> "Err", err |-> e]

LastCall == calls[Len(calls)]

\* No request call is running: request takes &mut self.
NoCallRunning == IF calls = <<>> THEN TRUE ELSE LastCall.st \in {"done", "cancelled"}

SetLast(f) == [calls EXCEPT ![Len(calls)] = f]

\* request(data), up to the lock add takes first.
ChanRequestStart(data) ==
    /\ NoCallRunning
    /\ Len(calls) < MaxCalls
    /\ AddLock(Caller)
    /\ calls' = Append(calls, [data |-> data, st |-> "adding", key |-> <<0, 0>>,
                               ch |-> 0, time |-> 0, res |-> None])
    /\ UNCHANGED <<outWire, inWire, inClosed, error_counter, runBody, delivered,
                   remoteEchoes, answered, forged, recvLog,
                   discarded>>

\* let (response, id) = self.responders.add();
ChanRequestAdded ==
    /\ calls # <<>>
    /\ LastCall.st = "adding"
    /\ AddInsert(Caller)
    /\ calls' = SetLast([LastCall EXCEPT !.st = "send",
                                         !.key = SlotInsert(channels, Len(oneshot) + 1).key,
                                         !.ch = Len(oneshot) + 1,
                                         !.time = now])
    /\ UNCHANGED <<outWire, inWire, inClosed, error_counter, runBody, delivered,
                   remoteEchoes, answered, forged, recvLog,
                   discarded>>

\* self.sender.send(&request).await succeeds.
ChanRequestSend ==
    /\ calls # <<>>
    /\ LastCall.st = "send"
    /\ outWire' = Append(outWire, Serialize(MRequest(LastCall.key, LastCall.data)))
    /\ calls' = SetLast([LastCall EXCEPT !.st = "waiting"])
    /\ UNCHANGED <<regVars, inWire, inClosed, error_counter, runBody, delivered,
                   remoteEchoes, answered, forged, recvLog,
                   discarded>>

\* What dropping a Receiver leaves of its channel.
DropReceiver(os, c) ==
    [os EXCEPT ![c] = IF @.st = "open" THEN [st |-> "rxdropped", val |-> <<>>] ELSE @]

\* A request that takes its slot out of the registry when its send fails.
ChanRequestSendFailsAndPops ==
    /\ calls # <<>>
    /\ LastCall.st = "send"
    /\ tqLock = 0
    /\ calls' = SetLast([LastCall EXCEPT !.st = "done", !.res = Err("TransmissionError")])
    /\ oneshot' = DropReceiver(oneshot, LastCall.ch)
    /\ channels' = SlotRemove(channels, LastCall.key).map
    /\ timeout_queue' = RemoveFirstKey(timeout_queue, LastCall.key)
    /\ UNCHANGED <<tqLock, now, rpc, rarg, issued, gonePop, goneTick, lastPop>>
    /\ UNCHANGED <<outWire, inWire, inClosed, error_counter, runBody, delivered,
                   remoteEchoes, answered, forged, recvLog,
                   discarded>>

\* self.sender.send(&request).await? fails: request returns the error and
\* drops the receiver; the sender stays in the registry.
ChanRequestSendFails ==
    /\ calls # <<>>
    /\ LastCall.st = "send"
    /\ calls' = SetLast([LastCall EXCEPT !.st = "done", !.res = Err("TransmissionError")])
    /\ oneshot' = DropReceiver(oneshot, LastCall.ch)
    /\ UNCHANGED <<channels, timeout_queue, tqLock, now, rpc, rarg, issued, gonePop,
                   goneTick, lastPop>>
    /\ UNCHANGED <<outWire, inWire, inClosed, error_counter, runBody, delivered,
                   remoteEchoes, answered, forged, recvLog,
                   discarded>>

\* response.await.map_err(|_| TransportError) completes: with the value
\* sent, or with the error once the sender has been dropped.
ChanRequestReturn ==
    /\ calls # <<>>
    /\ LastCall.st = "waiting"
    /\ oneshot[LastCall.ch].st \in {"sent", "closed"}
    /\ calls' = SetLast([LastCall EXCEPT
                            !.st = "done",
                            !.res = IF oneshot[LastCall.ch].st = "sent"
                                    THEN Ok(oneshot[LastCall.ch].val)
                                    ELSE Err("TransportError")])
    /\ UNCHANGED <<regVars, outWire, inWire, inClosed, error_counter, runBody,
                   delivered, remoteEchoes, answered, forged, recvLog,
                   discarded>>

\* The caller drops the future of request while it waits.
ChanRequestCancel ==
    /\ calls # <<>>
    /\ LastCall.st = "waiting"
    /\ calls' = SetLast([LastCall EXCEPT !.st = "cancelled"])
    /\ oneshot' = DropReceiver(oneshot, LastCall.ch)
    /\ UNCHANGED <<channels, timeout_queue, tqLock, now, rpc, rarg, issued, gonePop,
                   goneTick, lastPop>>
    /\ UNCHANGED <<outWire, inWire, inClosed, error_counter, runBody, delivered,
                   remoteEchoes, answered, forged, recvLog,
                   discarded>>

(***************************************************************************)
(* Channel::run.  One step takes recv's result and, for a Response, goes   *)
(* on to the first half of pop.                                            *)
(***************************************************************************)
\* A loop that stops one failure late.
AliveOneMore == error_counter < RunErrorLimit + 1

RunLoopAlive == error_counter < RunErrorLimit

\* recv returns Err: the payload is no PeerMessage, or the stream has
\* finished.  error_counter += 1; continue.
RunRecvError ==
    /\ RunLoopAlive
    /\ rpc[Runner] = "idle"
    /\ IF inWire = <<>> THEN inClosed ELSE RecvResult(Head(inWire)).tag # "Ok"
    /\ error_counter' = error_counter + 1
    /\ recvLog' = Append(recvLog, "failed")
    /\ inWire' = IF inWire = <<>> THEN inWire ELSE Tail(inWire)
    /\ UNCHANGED <<regVars, calls, outWire, inClosed, runBody, delivered,
                   remoteEchoes, answered, forged, discarded>>

\* recv returns a message that is no Response: error_counter = 0; continue.
RunRecvOther ==
    /\ RunLoopAlive
    /\ rpc[Runner] = "idle"
    /\ inWire # <<>>
    /\ RecvResult(Head(inWire)).tag = "Ok"
    /\ RecvResult(Head(inWire)).msg.kind # "Response"
    /\ error_counter' = 0
    /\ recvLog' = Append(recvLog, "decoded")
    \* let PeerMessage::Response { .. } = next else { continue; }
    /\ discarded' = Append(discarded, RecvResult(Head(inWire)).msg)
    /\ inWire' = Tail(inWire)
    /\ UNCHANGED <<regVars, calls, outWire, inClosed, runBody, delivered,
                   remoteEchoes, answered, forged>>

\* recv returns a Response: error_counter = 0 and responders.pop(request_id)
\* removes the key from the slotmap, or finds none and the loop continues.
RunRecvResponse ==
    /\ RunLoopAlive
    /\ inWire # <<>>
    /\ RecvResult(Head(inWire)).tag = "Ok"
    /\ RecvResult(Head(inWire)).msg.kind = "Response"
    /\ PopRemove(Runner, RecvResult(Head(inWire)).msg.request_id)
    /\ runBody' = RecvResult(Head(inWire)).msg.body
    /\ error_counter' = 0
    /\ recvLog' = Append(recvLog, "decoded")
    /\ inWire' = Tail(inWire)
    /\ UNCHANGED <<calls, outWire, inClosed, delivered, remoteEchoes, answered, forged,
                   discarded>>

\* The second half of pop.
RunPopQueue ==
    /\ PopQueue(Runner)
    /\ UNCHANGED chanVars

\* let _ = responder.send(body);
RunRespond ==
    /\ rpc[Runner] = "sender"
    /\ SenderSend(Runner, runBody)
    /\ delivered' = Append(delivered, [key |-> rarg[Runner].key,
                                       ch |-> rarg[Runner].sender,
                                       body |-> runBody])
    /\ runBody' = <<>>
    /\ UNCHANGED <<calls, outWire, inWire, inClosed, error_counter, remoteEchoes,
                   answered, forged, recvLog,
                   discarded>>

(***************************************************************************)
(* The remote end.                                                         *)
(***************************************************************************)
\* The request id of a payload that is a Response, as a set.
ResponseIds(data) ==
    IF Deserialize(data).kind = "Response" THEN {Deserialize(data).request_id} ELSE {}

\* The remote answers the oldest request with a Response that carries the
\* request's id and its body.
RemoteEcho ==
    /\ outWire # <<>>
    /\ ~inClosed
    /\ LET m == Deserialize(Head(outWire))
           data == Serialize(MResponse(m.request_id, m.body))
       IN /\ inWire' = Append(inWire, data)
          /\ answered' = answered \cup ResponseIds(data)
    /\ outWire' = Tail(outWire)
    /\ UNCHANGED <<regVars, calls, inClosed, error_counter, runBody, delivered,
                   remoteEchoes, forged, recvLog,
                   discarded>>

\* The remote reads a request and never answers it.
RemoteIgnore ==
    /\ outWire # <<>>
    /\ outWire' = Tail(outWire)
    /\ remoteEchoes' = FALSE
    /\ UNCHANGED <<regVars, calls, inWire, inClosed, error_counter, runBody,
                   delivered, answered, forged, recvLog,
                   discarded>>

\* What the remote may write unasked: Responses with ids of its choosing
\* (one with an even version), a Request, and bytes that are no PeerMessage.
ForgedPayloads ==
    {Serialize(MResponse(k, <<9>>)) : k \in {<<1, 1>>, <<1, 2>>}}
       \cup {Serialize(MRequest(<<1, 1>>, <<>>)), <<9>>}

RemoteSend(data) ==
    /\ ~inClosed
    /\ forged < MaxForged
    /\ forged' = forged + 1
    /\ inWire' = Append(inWire, data)
    /\ answered' = answered \cup ResponseIds(data)
    /\ remoteEchoes' = FALSE
    /\ UNCHANGED <<regVars, calls, outWire, inClosed, error_counter, runBody, delivered,
                   recvLog,
                   discarded>>

\* The remote finishes its send stream: every later recv is an error.
RemoteClose ==
    /\ ~inClosed
    /\ inClosed' = TRUE
    /\ remoteEchoes' = FALSE
    /\ UNCHANGED <<regVars, calls, outWire, inWire, error_counter, runBody,
                   delivered, answered, forged, recvLog,
                   discarded>>

\* More than the timeout passes on the channel's clock.
ChanAdvanceTime ==
    /\ now + Timeout + TimeStep <= MaxTime
    /\ now' = now + Timeout + TimeStep
    /\ UNCHANGED <<channels, timeout_queue, tqLock, rpc, rarg, oneshot, issued,
                   gonePop, goneTick, lastPop>>
    /\ UNCHANGED chanVars

ChanNext ==
    \/ \E data \in RegBodies : ChanRequestStart(data) /\ UNCHANGED nonChanVars
    \/ ChanRequestAdded /\ UNCHANGED nonChanVars
    \/ ChanRequestSend /\ UNCHANGED nonChanVars
    \/ ChanRequestSendFails /\ UNCHANGED nonChanVars
    \/ ChanRequestReturn /\ UNCHANGED nonChanVars
    \/ ChanRequestCancel /\ UNCHANGED nonChanVars
    \/ RunRecvError /\ UNCHANGED nonChanVars
    \/ RunRecvOther /\ UNCHANGED nonChanVars
    \/ RunRecvResponse /\ UNCHANGED nonChanVars
    \/ RunPopQueue /\ UNCHANGED nonChanVars
    \/ RunRespond /\ UNCHANGED nonChanVars
    \/ RemoteEcho /\ UNCHANGED nonChanVars
    \/ RemoteIgnore /\ UNCHANGED nonChanVars
    \/ \E data \in ForgedPayloads : RemoteSend(data) /\ UNCHANGED nonChanVars
    \/ RemoteClose /\ UNCHANGED nonChanVars
    \/ ChanAdvanceTime /\ UNCHANGED nonChanVars

ChanInit == ChanIdle /\ RegIdle /\ FrameIdle /\ HsIdle /\ PhIdle /\ SizeIdle /\ NodeIdle /\ ActorIdle /\ PoisonIdle /\ RaceIdle /\ GuardIdle /\ LockIdle /\ NsIdle

SpecChan == ChanInit /\ [][ChanNext]_vars

(***************************************************************************)
(* Claims about the channel.                                               *)
(***************************************************************************)
CallIds == 1..Len(calls)

\* C1: a request whose Response never arrives returns
\* Err(TransportError) once the 30 seconds of the timeout have passed, and
\* its slot is removed from the registry, whether the run loop is alive or
\* has terminated.  Here: no request is still waiting, unanswered, a full
\* clock step after its timeout has passed.
C1_UnansweredRequestTimesOut ==
    \A i \in CallIds :
        (calls[i].st = "waiting" /\ calls[i].key \notin answered)
            => now < calls[i].time + Timeout + TimeStep

\* C2: each Response{request_id, body} frame is delivered only to the
\* request call that was given that request_id, and that call returns
\* exactly that frame's body: every responder.send of the run loop goes to
\* the receiver of the call whose id the frame carries, no call is sent two
\* frames, and a call that returns Ok returns the body of the frame sent to
\* it.
C2_ResponseToItsRequest ==
    /\ \A d \in 1..Len(delivered) :
          \E i \in CallIds : calls[i].ch = delivered[d].ch /\ calls[i].key = delivered[d].key
    /\ \A d, e \in 1..Len(delivered) : d # e => delivered[d].ch # delivered[e].ch
    /\ \A i \in CallIds :
          (calls[i].st = "done" /\ calls[i].res.tag = "Ok") =>
              \E d \in 1..Len(delivered) :
                  /\ delivered[d].ch = calls[i].ch
                  /\ delivered[d].key = calls[i].key
                  /\ delivered[d].body = calls[i].res.body

\* The second call has reused the slot of the first and has returned the
\* body of a frame the remote wrote for its id, which is not the body it
\* sent; the remote has also written a frame with the first call's id.
C2_ReusedSlotAnswered ==
    /\ Len(calls) = 2
    /\ calls[1].key[1] = calls[2].key[1]
    /\ calls[2].st = "done"
    /\ calls[2].res = Ok(<<9>>)
    /\ calls[2].data # <<9>>
    /\ calls[1].key \in answered

\* C3: with a remote that answers every Request{request_id, body} with
\* Response{request_id, body}, request(data) returns Ok(data), also for
\* empty data: a call whose send succeeded returns nothing else, and it is
\* never left waiting with both streams drained and the run loop idle.
C3_EchoReturnsData ==
    remoteEchoes =>
        \A i \in CallIds :
            /\ (calls[i].st = "done" /\ calls[i].res # Err("TransmissionError"))
                  => calls[i].res = Ok(calls[i].data)
            /\ calls[i].st = "waiting" =>
                  \/ outWire # <<>>
                  \/ inWire # <<>>
                  \/ rpc[Runner] # "idle"
                  \/ oneshot[calls[i].ch].st = "sent"

\* Two calls have returned what they sent from an echoing remote, the
\* first of them empty bytes.
C3_EchoedEmptyAndNonEmpty ==
    /\ remoteEchoes
    /\ Len(calls) = 2
    /\ calls[1].st = "done" /\ calls[1].data = <<>> /\ calls[1].res = Ok(<<>>)
    /\ calls[2].st = "done" /\ calls[2].data = <<7>> /\ calls[2].res = Ok(<<7>>)

\* C37: a Response frame that carries the request_id of a request already
\* answered is never delivered to a later request, even when the later
\* request has reused the slot: what a call's receiver is sent came in a
\* frame with that call's own id, and no id is delivered twice.
C37_StaleResponseNotDelivered ==
    \A d \in 1..Len(delivered) :
        /\ \A i \in CallIds :
              calls[i].ch = delivered[d].ch => calls[i].key = delivered[d].key
        /\ \A e \in 1..Len(delivered) :
              delivered[e].key = delivered[d].key => e = d

\* The first call was answered; the second has reused its slot and waits;
\* the run loop has since popped a second frame with the first call's id
\* and found no responder.
C37_StaleFrameAfterReuse ==
    /\ Len(calls) = 2
    /\ calls[2].st = "waiting"
    /\ calls[2].key[1] = calls[1].key[1]
    /\ Len(delivered) = 1
    /\ delivered[1].key = calls[1].key
    /\ lastPop.key = calls[1].key
    /\ ~lastPop.some
    /\ rpc[Runner] = "idle"
    /\ inWire = <<>>

\* request has returned the error of its framed send.
SendFailed(i) == calls[i].st = "done" /\ calls[i].res = Err("TransmissionError")

\* C38 as stated: if the framed send inside request fails, the call returns
\* that error at once, without waiting for a response, and does not remove
\* the slot it registered: the slot stays in the registry, where only a
\* later tick expiry can remove it.
C38_OnlyTickRemovesSlot ==
    \A i \in CallIds :
        SendFailed(i) =>
            /\ oneshot[calls[i].ch].st # "open"
            /\ SlotContains(channels, calls[i].key) \/ calls[i].key \in goneTick

\* C38 amended: the slot stays in the registry until a tick expiry or the
\* run loop's pop for a Response frame that carries its id removes it; the
\* call itself never removes it, and its receiver is dropped.
C38_SlotLeftToTickOrPop ==
    \A i \in CallIds :
        SendFailed(i) =>
            /\ oneshot[calls[i].ch].st # "open"
            /\ SlotContains(channels, calls[i].key)
                  \/ calls[i].key \in goneTick
                  \/ calls[i].key \in gonePop

\* A call's send has failed, and the run loop has since popped its slot for
\* a Response frame the remote wrote with that id.
C38_FailedSlotPopped ==
    \E i \in CallIds :
        /\ SendFailed(i)
        /\ calls[i].key \in gonePop
        /\ ~SlotContains(channels, calls[i].key)

(***************************************************************************)
(* The four-step handshake (src/src/message.rs).  client_handshake and     *)
(* server_handshake each call connection.open_bi(): each works on a stream *)
(* of its own, whose far end is the other node.  Neither function accepts  *)
(* a stream.  validator.handshake is code the crate does not hold: it is   *)
(* a window in which the validator writes ValidatorPackets, reads them,    *)
(* and returns Ok or an error.                                             *)
(***************************************************************************)
HSMagic == "PALANTIR"

ClientInitiation(magic, name) == [kind |-> "ClientInitiation", magic |-> magic, name |-> name]
ServerResponse(magic, name) == [kind |-> "ServerResponse", magic |-> magic, name |-> name]
ValidatorPacket == [kind |-> "ValidatorPacket"]
HandshakeCompleted == [kind |-> "HandshakeCompleted"]
NameTaken == [kind |-> "NameTaken"]
InvalidMagic == [kind |-> "InvalidMagic"]
UnexpectedPacket == [kind |-> "UnexpectedPacket"]
MalformedData == [kind |-> "MalformedData"]
\* A payload that is no PalantirMessage.
Undecodable == [kind |-> "Undecodable"]
\* recv's Err(TransmissionError): the stream ended.
StreamEnded == [kind |-> "StreamEnded"]

Sent(m) == [from |-> "self", msg |-> m]
Received(m) == [from |-> "far", msg |-> m]

ErrList(errs) == [tag |-> "Err", errs |-> errs]
\* A return that reports an error where the name should be returned.
ErrInsteadOfName(name) == [tag |-> "Err", err |-> "UnexpectedPacket"]

OkName(name) == [tag |-> "Ok", name |-> name]

\* Whether a framed.send may fail: never while the transport delivers.
SendOutcomes == IF hsScenario = "paired" THEN {TRUE} ELSE BOOLEAN

\* A name that is no key of instance.peers.
NameNeverPresent(s, name) == FALSE

\* instance.peers.read().contains_key(&name)
NamePresent(s, name) == name \in hsPeers[s]

\* framed.recv() has something to return.
RecvReady(s) == hsIn[s] # <<>> \/ hsInFinished[s]

RecvItem(s) == IF hsIn[s] # <<>> THEN Head(hsIn[s]) ELSE StreamEnded

\* The checks both functions run on the first frame they receive: the
\* error they put first in their list and the frame they answer with, or
\* no error.
FirstFrameVerdict(s, item, expected) ==
    IF item.kind = "StreamEnded" THEN [err |-> "TransmissionError", reply |-> <<>>]
    ELSE IF item.kind = "Undecodable" THEN [err |-> "InvalidEncoding", reply |-> <<MalformedData>>]
    ELSE IF item.kind # expected THEN [err |-> "UnexpectedPacket", reply |-> <<UnexpectedPacket>>]
    ELSE IF item.magic # HSMagic THEN [err |-> "InvalidMagic", reply |-> <<InvalidMagic>>]
    ELSE IF NamePresent(s, item.name) THEN [err |-> "NameTaken", reply |-> <<NameTaken>>]
    ELSE [err |-> "", reply |-> <<>>]

\* The frames of a sequence, marked as received.
ReceivedAll(q) == [i \in 1..Len(q) |-> Received(q[i])]

\* A return that forgets the error of the send that should tell the peer.
ReturnErrFirstOnly(s, got, err, reply, sendOk) ==
    /\ hsPc' = [hsPc EXCEPT ![s] = "done"]
    /\ hsRes' = [hsRes EXCEPT ![s] = ErrList(<<err>>)]
    /\ hsLog' = [hsLog EXCEPT ![s] =
                    @ \o ReceivedAll(got)
                      \o (IF reply # <<>> /\ sendOk THEN <<Sent(reply[1])>> ELSE <<>>)]

\* return Err(errs) after telling the peer: the reply is on the stream if
\* its send succeeded, the send's error is in the list if not.
ReturnErr(s, got, err, reply, sendOk) ==
    /\ hsPc' = [hsPc EXCEPT ![s] = "done"]
    /\ hsRes' = [hsRes EXCEPT ![s] =
                    ErrList(IF reply = <<>> \/ sendOk THEN <<err>>
                            ELSE <<err, "TransmissionError">>)]
    /\ hsLog' = [hsLog EXCEPT ![s] =
                    @ \o ReceivedAll(got)
                      \o (IF reply # <<>> /\ sendOk THEN <<Sent(reply[1])>> ELSE <<>>)]

\* The function of side s is called in this scenario.
Runs(s) == hsScenario \in {"paired", IF s = "I" THEN "initiator" ELSE "acceptor"}

\* connection.open_bi().await?.await?
OpenStream(s, next) ==
    /\ Runs(s)
    /\ hsPc[s] = "start"
    /\ \E ok \in SendOutcomes :
          IF ok THEN /\ hsPc' = [hsPc EXCEPT ![s] = next]
                     /\ UNCHANGED <<hsRes, hsLog>>
          ELSE ReturnErr(s, <<>>, "ConnectionError", <<>>, TRUE)
    /\ UNCHANGED <<hsScenario, hsName, hsPeers, hsIn, hsInFinished, hsPeerName,
                   hsValidatorInvoked, hsClosed, hsEnvCount, hsVCount>>

\* framed.send(&m).await.map_err(|e| vec![e.into()])?
SendOrReturn(s, m, next) ==
    \E ok \in SendOutcomes :
        IF ok THEN /\ hsPc' = [hsPc EXCEPT ![s] = next]
                   /\ hsLog' = [hsLog EXCEPT ![s] = Append(@, Sent(m))]
                   /\ UNCHANGED hsRes
        ELSE ReturnErr(s, <<>>, "TransmissionError", <<>>, TRUE)

\* The first recv of a function and the checks after it, up to the call of
\* validator.handshake (client) or to step 2 (server).
RecvFirstFrame(s, expected, next) ==
    /\ RecvReady(s)
    /\ LET item == RecvItem(s)
           v == FirstFrameVerdict(s, item, expected)
       IN /\ hsIn' = [hsIn EXCEPT ![s] = <<>>]
          /\ IF v.err = ""
             THEN /\ hsPeerName' = [hsPeerName EXCEPT ![s] = item.name]
                  /\ hsPc' = [hsPc EXCEPT ![s] = next]
                  /\ hsLog' = [hsLog EXCEPT ![s] = Append(@, Received(item))]
                  /\ hsValidatorInvoked' =
                        [hsValidatorInvoked EXCEPT ![s] = (next = "validate")]
                  /\ UNCHANGED hsRes
             ELSE /\ \E ok \in SendOutcomes : ReturnErr(s, hsIn[s], v.err, v.reply, ok)
                  /\ hsPeerName' = [hsPeerName EXCEPT ![s] =
                                       IF v.err = "NameTaken" THEN item.name ELSE @]
                  /\ UNCHANGED hsValidatorInvoked
    /\ UNCHANGED <<hsScenario, hsName, hsPeers, hsInFinished, hsClosed, hsEnvCount,
                   hsVCount>>

\* ---- client_handshake ----
ClientOpen == OpenStream("I", "sendInitiation")

\* Step 1: framed.send(&ClientInitiation { magic, name })
ClientSendInitiation ==
    /\ hsPc["I"] = "sendInitiation"
    /\ SendOrReturn("I", ClientInitiation(HSMagic, hsName["I"]), "recvResponse")
    /\ UNCHANGED <<hsScenario, hsName, hsPeers, hsIn, hsInFinished, hsPeerName,
                   hsValidatorInvoked, hsClosed, hsEnvCount, hsVCount>>

\* Step 2: receive the ServerResponse, check the magic and the name, and
\* enter validator.handshake.
ClientRecvResponse ==
    /\ hsPc["I"] = "recvResponse"
    /\ RecvFirstFrame("I", "ServerResponse", "validate")

\* Steps 4 and 5: framed.send(&HandshakeCompleted), close, Ok(name).
ClientSendCompleted ==
    /\ hsPc["I"] = "sendCompleted"
    /\ \E ok \in SendOutcomes :
          IF ok THEN /\ hsPc' = [hsPc EXCEPT !["I"] = "done"]
                     /\ hsLog' = [hsLog EXCEPT !["I"] = Append(@, Sent(HandshakeCompleted))]
                     /\ hsClosed' = [hsClosed EXCEPT !["I"] = TRUE]
                     /\ hsRes' = [hsRes EXCEPT !["I"] = OkName(hsPeerName["I"])]
          ELSE /\ ReturnErr("I", <<>>, "TransmissionError", <<>>, TRUE)
               /\ UNCHANGED hsClosed
    /\ UNCHANGED <<hsScenario, hsName, hsPeers, hsIn, hsInFinished, hsPeerName,
                   hsValidatorInvoked, hsEnvCount, hsVCount>>

\* ---- server_handshake ----
ServerOpen == OpenStream("A", "recvInitiation")

\* Step 1: receive the ClientInitiation, check the magic and the name.
ServerRecvInitiation ==
    /\ hsPc["A"] = "recvInitiation"
    /\ RecvFirstFrame("A", "ClientInitiation", "sendResponse")

\* Step 2: the frame built at message.rs:266 is a ClientInitiation; after
\* its send validator.handshake is entered.
ServerSendResponse ==
    /\ hsPc["A"] = "sendResponse"
    /\ SendOrReturn("A", ClientInitiation(HSMagic, hsName["A"]), "validate")
    /\ hsValidatorInvoked' = [hsValidatorInvoked EXCEPT !["A"] = (hsPc'["A"] = "validate")]
    /\ UNCHANGED <<hsScenario, hsName, hsPeers, hsIn, hsInFinished, hsPeerName,
                   hsClosed, hsEnvCount, hsVCount>>

\* Steps 4 and 5: receive HandshakeCompleted, close, Ok(name).
ServerRecvCompleted ==
    /\ hsPc["A"] = "recvCompleted"
    /\ RecvReady("A")
    /\ LET item == RecvItem("A")
       IN /\ hsIn' = [hsIn EXCEPT !["A"] = <<>>]
          /\ IF item.kind = "HandshakeCompleted"
             THEN /\ hsPc' = [hsPc EXCEPT !["A"] = "done"]
                  /\ hsLog' = [hsLog EXCEPT !["A"] = Append(@, Received(item))]
                  /\ hsClosed' = [hsClosed EXCEPT !["A"] = TRUE]
                  /\ hsRes' = [hsRes EXCEPT !["A"] = OkName(hsPeerName["A"])]
             ELSE /\ \E ok \in SendOutcomes :
                        IF item.kind = "StreamEnded"
                        THEN ReturnErr("A", <<>>, "TransmissionError", <<>>, TRUE)
                        ELSE IF item.kind = "Undecodable"
                        THEN ReturnErr("A", hsIn["A"], "InvalidEncoding", <<MalformedData>>, ok)
                        ELSE ReturnErr("A", hsIn["A"], "UnexpectedPacket",
                                       <<UnexpectedPacket>>, ok)
                  /\ UNCHANGED hsClosed
    /\ UNCHANGED <<hsScenario, hsName, hsPeers, hsInFinished, hsPeerName,
                   hsValidatorInvoked, hsEnvCount, hsVCount>>

\* ---- validator.handshake(&mut framed, state, &name) ----
AfterValidator(s) == IF s = "I" THEN "sendCompleted" ELSE "recvCompleted"

\* The validator writes a packet.
ValidatorSend(s) ==
    /\ hsPc[s] = "validate"
    /\ hsVCount[s] < MaxVPackets
    /\ hsVCount' = [hsVCount EXCEPT ![s] = @ + 1]
    /\ hsLog' = [hsLog EXCEPT ![s] = Append(@, Sent(ValidatorPacket))]
    /\ UNCHANGED <<hsScenario, hsName, hsPeers, hsPc, hsIn, hsInFinished, hsPeerName,
                   hsRes, hsValidatorInvoked, hsClosed, hsEnvCount>>

\* The validator reads a frame: a packet of its own kind, or something
\* else, on which it gives up.
ValidatorRecv(s) ==
    /\ hsPc[s] = "validate"
    /\ RecvReady(s)
    /\ hsIn' = [hsIn EXCEPT ![s] = <<>>]
    /\ IF RecvItem(s).kind = "ValidatorPacket"
       THEN /\ hsLog' = [hsLog EXCEPT ![s] = Append(@, Received(RecvItem(s)))]
            /\ UNCHANGED <<hsPc, hsRes>>
       ELSE ReturnErr(s, hsIn[s], "ValidationError", <<>>, TRUE)
    /\ UNCHANGED <<hsScenario, hsName, hsPeers, hsInFinished, hsPeerName,
                   hsValidatorInvoked, hsClosed, hsEnvCount, hsVCount>>

\* A validator window whose error does not stop the handshake from
\* sending HandshakeCompleted.
ValidatorReturnCompletes(s) ==
    /\ hsPc[s] = "validate"
    /\ hsPc' = [hsPc EXCEPT ![s] = "done"]
    /\ hsRes' = [hsRes EXCEPT ![s] = ErrList(<<"ValidationError">>)]
    /\ hsLog' = [hsLog EXCEPT ![s] = Append(@, Sent(HandshakeCompleted))]
    /\ UNCHANGED <<hsScenario, hsName, hsPeers, hsIn, hsInFinished, hsPeerName,
                   hsValidatorInvoked, hsClosed, hsEnvCount, hsVCount>>

\* The validator returns: Ok(()), or the errors handed on by `?`.
ValidatorReturn(s) ==
    /\ hsPc[s] = "validate"
    /\ \E ok \in SendOutcomes :
          IF ok THEN /\ hsPc' = [hsPc EXCEPT ![s] = AfterValidator(s)]
                     /\ UNCHANGED <<hsRes, hsLog>>
          ELSE ReturnErr(s, <<>>, "ValidationError", <<>>, TRUE)
    /\ UNCHANGED <<hsScenario, hsName, hsPeers, hsIn, hsInFinished, hsPeerName,
                   hsValidatorInvoked, hsClosed, hsEnvCount, hsVCount>>

\* ---- the far end of a side's stream, when it is anybody ----
HSNames == {"n1", "n2"}

FarFrames ==
    {ClientInitiation(HSMagic, n) : n \in HSNames}
       \cup {ServerResponse(HSMagic, n) : n \in HSNames}
       \cup {ClientInitiation("PALANTIS", "n1"), ServerResponse("PALANTIS", "n2"),
             ValidatorPacket, HandshakeCompleted, Undecodable}

FarWrite(s, m) ==
    /\ hsScenario # "paired"
    /\ hsPc[s] \notin {"start", "done"}
    /\ hsIn[s] = <<>>
    /\ ~hsInFinished[s]
    /\ hsEnvCount[s] < MaxEnvFrames
    /\ hsEnvCount' = [hsEnvCount EXCEPT ![s] = @ + 1]
    /\ hsIn' = [hsIn EXCEPT ![s] = <<m>>]
    /\ UNCHANGED <<hsScenario, hsName, hsPeers, hsPc, hsInFinished, hsLog, hsPeerName,
                   hsRes, hsValidatorInvoked, hsClosed, hsVCount>>

FarFinish(s) ==
    /\ hsScenario # "paired"
    /\ hsPc[s] \notin {"start", "done"}
    /\ ~hsInFinished[s]
    /\ hsInFinished' = [hsInFinished EXCEPT ![s] = TRUE]
    /\ UNCHANGED <<hsScenario, hsName, hsPeers, hsPc, hsIn, hsLog, hsPeerName,
                   hsRes, hsValidatorInvoked, hsClosed, hsEnvCount, hsVCount>>

\* The steps of the two functions and of their validators.
HSSteps ==
    \/ ClientOpen
    \/ ClientSendInitiation
    \/ ClientRecvResponse
    \/ ClientSendCompleted
    \/ ServerOpen
    \/ ServerRecvInitiation
    \/ ServerSendResponse
    \/ ServerRecvCompleted
    \/ \E s \in Sides : ValidatorSend(s)
    \/ \E s \in Sides : ValidatorRecv(s)
    \/ \E s \in Sides : ValidatorReturn(s)

HSNext ==
    \/ ClientOpen /\ UNCHANGED nonHsVars
    \/ ClientSendInitiation /\ UNCHANGED nonHsVars
    \/ ClientRecvResponse /\ UNCHANGED nonHsVars
    \/ ClientSendCompleted /\ UNCHANGED nonHsVars
    \/ ServerOpen /\ UNCHANGED nonHsVars
    \/ ServerRecvInitiation /\ UNCHANGED nonHsVars
    \/ ServerSendResponse /\ UNCHANGED nonHsVars
    \/ ServerRecvCompleted /\ UNCHANGED nonHsVars
    \/ \E s \in Sides : ValidatorSend(s) /\ UNCHANGED nonHsVars
    \/ \E s \in Sides : ValidatorRecv(s) /\ UNCHANGED nonHsVars
    \/ \E s \in Sides : ValidatorReturn(s) /\ UNCHANGED nonHsVars
    \/ \E s \in Sides : \E m \in FarFrames : FarWrite(s, m) /\ UNCHANGED nonHsVars
    \/ \E s \in Sides : FarFinish(s) /\ UNCHANGED nonHsVars

\* Two instances named n1 and n2, any of the three scenarios, and peer tables
\* that hold nothing or one of the names.
HSInit ==
    /\ hsScenario \in {"paired", "initiator", "acceptor"}
    /\ hsName = [s \in Sides |-> IF s = "I" THEN "n1" ELSE "n2"]
    /\ hsPeers \in [Sides -> {{}, {"n1"}, {"n2"}}]
    /\ hsPc = [s \in Sides |-> "start"]
    /\ hsIn = [s \in Sides |-> <<>>]
    /\ hsInFinished = [s \in Sides |-> FALSE]
    /\ hsLog = [s \in Sides |-> <<>>]
    /\ hsPeerName = [s \in Sides |-> ""]
    /\ hsRes = [s \in Sides |-> None]
    /\ hsValidatorInvoked = [s \in Sides |-> FALSE]
    /\ hsClosed = [s \in Sides |-> FALSE]
    /\ hsEnvCount = [s \in Sides |-> 0]
    /\ hsVCount = [s \in Sides |-> 0]
    /\ RegIdle /\ FrameIdle /\ ChanIdle /\ PhIdle /\ SizeIdle /\ NodeIdle /\ ActorIdle /\ PoisonIdle /\ RaceIdle /\ GuardIdle /\ LockIdle /\ NsIdle

SpecHS == HSInit /\ [][HSNext]_vars

\* The validator of side s has returned an error.
ValidatorFailed(s) ==
    /\ hsRes[s].tag = "Err"
    /\ "ValidationError" \in Range(hsRes[s].errs)

\* C30: if the validator's handshake returns an error during step 3, the
\* handshake call returns exactly the validator's error list,
\* HandshakeCompleted is neither sent nor awaited, and the peer's name is
\* not inserted into the peer table.
C30_ValidatorErrorAborts ==
    /\ [](\A s \in Sides :
            ValidatorFailed(s) =>
                /\ hsRes[s] = ErrList(<<"ValidationError">>)
                /\ hsPc[s] = "done"
                /\ \A i \in 1..Len(hsLog[s]) : hsLog[s][i] # Sent(HandshakeCompleted)
                /\ ~hsClosed[s]
                /\ hsPeerName[s] \notin hsPeers[s])
    /\ [][\A s \in Sides :
            (hsPc[s] = "validate" /\ hsPc'[s] \notin {"validate", AfterValidator(s)}) =>
                /\ hsPc'[s] = "done"
                /\ hsRes'[s] = ErrList(<<"ValidationError">>)
                /\ hsPeers' = hsPeers]_vars

\* A validator has sent its packet and then returned an error.
C30_ValidatorFailedAfterPacket ==
    \E s \in Sides :
        /\ ValidatorFailed(s)
        /\ hsVCount[s] = MaxVPackets
        /\ hsLog[s][Len(hsLog[s])] = Sent(ValidatorPacket)

(***************************************************************************)
(* Palantir::new_peer (src/src/lib.rs): the initiator of the older         *)
(* handshake.  It connects, opens a stream, sends ClientHandshake and      *)
(* reads one frame.  No function of the crate answers it: the far end of   *)
(* its stream is anybody.  It runs as side "I" of scenario "newPeer".      *)
(***************************************************************************)
ClientHandshake(magic, name) == [kind |-> "ClientHandshake", magic |-> magic, name |-> name]

\* return from new_peer: what it received and what it sent go to the log.
NewPeerReturn(res, got, sent) ==
    /\ hsPc' = [hsPc EXCEPT !["I"] = "done"]
    /\ hsRes' = [hsRes EXCEPT !["I"] = res]
    /\ hsLog' = [hsLog EXCEPT !["I"] = @ \o ReceivedAll(got) \o sent]

\* Endpoint::client, endpoint.connect(opts) and conn.open_bi(), each
\* returning its error with `?`.
NewPeerConnect ==
    /\ hsScenario = "newPeer"
    /\ hsPc["I"] = "start"
    /\ \E ok \in BOOLEAN :
          IF ok THEN /\ hsPc' = [hsPc EXCEPT !["I"] = "sendHandshake"]
                     /\ UNCHANGED <<hsRes, hsLog>>
          ELSE NewPeerReturn(Err("ConnectionError"), <<>>, <<>>)
    /\ UNCHANGED <<hsScenario, hsName, hsPeers, hsIn, hsInFinished, hsPeerName,
                   hsValidatorInvoked, hsClosed, hsEnvCount, hsVCount>>

\* framed.send(&PalantirMessage::ClientHandshake { magic, name, validation }).await?
NewPeerSendHandshake ==
    /\ hsPc["I"] = "sendHandshake"
    /\ \E ok \in BOOLEAN :
          IF ok THEN /\ hsPc' = [hsPc EXCEPT !["I"] = "awaitResponse"]
                     /\ hsLog' = [hsLog EXCEPT !["I"] =
                                     Append(@, Sent(ClientHandshake(HSMagic, hsName["I"])))]
                     /\ UNCHANGED hsRes
          ELSE NewPeerReturn(Err("TransmissionError"), <<>>, <<>>)
    /\ UNCHANGED <<hsScenario, hsName, hsPeers, hsIn, hsInFinished, hsPeerName,
                   hsValidatorInvoked, hsClosed, hsEnvCount, hsVCount>>

\* framed.recv().await? and all that follows it: a frame that is no
\* ServerResponse is answered with UnexpectedPacket, a wrong magic with
\* MalformedData, both returning PeerIncorrectlyResponded; a name that is in
\* the table returns Ok(()) if the entry's remote address is this
\* connection's and DuplicateName if not; a new name is inserted.
NewPeerRecvResponse ==
    /\ hsPc["I"] = "awaitResponse"
    /\ RecvReady("I")
    /\ hsIn' = [hsIn EXCEPT !["I"] = <<>>]
    /\ LET item == RecvItem("I")
       IN \E ok \in BOOLEAN : \E sameAddress \in BOOLEAN :
            IF item.kind = "StreamEnded"
            THEN NewPeerReturn(Err("TransmissionError"), <<>>, <<>>) /\ UNCHANGED hsPeers
            ELSE IF item.kind = "Undecodable"
            THEN NewPeerReturn(Err("InvalidEncoding"), <<item>>, <<>>) /\ UNCHANGED hsPeers
            ELSE IF item.kind # "ServerResponse"
            THEN /\ IF ok THEN NewPeerReturn(Err("PeerIncorrectlyResponded"), <<item>>,
                                             <<Sent(UnexpectedPacket)>>)
                    ELSE NewPeerReturn(Err("TransmissionError"), <<item>>, <<>>)
                 /\ UNCHANGED hsPeers
            ELSE IF item.magic # HSMagic
            THEN /\ IF ok THEN NewPeerReturn(Err("PeerIncorrectlyResponded"), <<item>>,
                                             <<Sent(MalformedData)>>)
                    ELSE NewPeerReturn(Err("TransmissionError"), <<item>>, <<>>)
                 /\ UNCHANGED hsPeers
            ELSE IF item.name \in hsPeers["I"]
            THEN /\ IF sameAddress THEN NewPeerReturn(Ok(<<>>), <<item>>, <<>>)
                    ELSE NewPeerReturn(Err("DuplicateName"), <<item>>, <<>>)
                 /\ UNCHANGED hsPeers
            ELSE /\ hsPeers' = [hsPeers EXCEPT !["I"] = @ \cup {item.name}]
                 /\ NewPeerReturn(Ok(<<>>), <<item>>, <<>>)
    /\ UNCHANGED <<hsScenario, hsName, hsInFinished, hsPeerName, hsValidatorInvoked,
                   hsClosed, hsEnvCount, hsVCount>>

NpNext ==
    \/ NewPeerConnect /\ UNCHANGED nonHsVars
    \/ NewPeerSendHandshake /\ UNCHANGED nonHsVars
    \/ NewPeerRecvResponse /\ UNCHANGED nonHsVars
    \/ \E m \in FarFrames : FarWrite("I", m) /\ UNCHANGED nonHsVars
    \/ FarFinish("I") /\ UNCHANGED nonHsVars

\* The instance n1, whose table holds any of the names.
NpInit ==
    /\ hsScenario = "newPeer"
    /\ hsName = [s \in Sides |-> IF s = "I" THEN "n1" ELSE "n2"]
    /\ \E table \in SUBSET HSNames : hsPeers = [s \in Sides |-> IF s = "I" THEN table ELSE {}]
    /\ hsPc = [s \in Sides |-> "start"]
    /\ hsIn = [s \in Sides |-> <<>>]
    /\ hsInFinished = [s \in Sides |-> FALSE]
    /\ hsLog = [s \in Sides |-> <<>>]
    /\ hsPeerName = [s \in Sides |-> ""]
    /\ hsRes = [s \in Sides |-> None]
    /\ hsValidatorInvoked = [s \in Sides |-> FALSE]
    /\ hsClosed = [s \in Sides |-> FALSE]
    /\ hsEnvCount = [s \in Sides |-> 0]
    /\ hsVCount = [s \in Sides |-> 0]
    /\ RegIdle /\ FrameIdle /\ ChanIdle /\ PhIdle /\ SizeIdle /\ NodeIdle /\ ActorIdle /\ PoisonIdle /\ RaceIdle /\ GuardIdle /\ LockIdle /\ NsIdle

SpecNewPeer == NpInit /\ [][NpNext]_vars

(***************************************************************************)
(* Claims about the four-step handshake.                                   *)
(***************************************************************************)
BothReturnedOk ==
    /\ hsRes["I"] = OkName(hsName["A"])
    /\ hsRes["A"] = OkName(hsName["I"])

\* C7: when the initiator runs client_handshake and the acceptor runs
\* server_handshake on the same connection, with distinct names absent
\* from both peer tables, accepting validators and a transport that
\* delivers every frame, both calls eventually return Ok with the
\* counterparty's name.  Here: in such a run, as long as the two have not
\* both returned Ok with the other's name, one of them can take a step.
C7_BothReturnOk ==
    (/\ hsScenario = "paired"
     /\ hsName["I"] # hsName["A"]
     /\ \A s \in Sides : hsPeers[s] \cap {hsName["I"], hsName["A"]} = {})
        => (BothReturnedOk \/ ENABLED HSSteps)

\* The frames a successful run leaves on the stream of side s, as the
\* protocol orders them: who is the initiator on that stream, and the two
\* names.
FramesInOrder(log, ini, acc, iniName, accName) ==
    /\ Len(log) >= 3
    /\ log[1] = [from |-> ini, msg |-> ClientInitiation(HSMagic, iniName)]
    /\ log[2] = [from |-> acc, msg |-> ServerResponse(HSMagic, accName)]
    /\ \A k \in 3..(Len(log) - 1) : log[k].msg = ValidatorPacket
    /\ log[Len(log)] = [from |-> ini, msg |-> HandshakeCompleted]

\* C8: in every successful run of the handshake the frames on the
\* handshake stream are, in order: ClientInitiation{"PALANTIR", initiator
\* name} from the initiator, ServerResponse{"PALANTIR", acceptor name} from
\* the acceptor, then only ValidatorPackets, then HandshakeCompleted from
\* the initiator, after which the stream is closed.
C8_FrameOrder ==
    /\ hsRes["I"].tag = "Ok" =>
          /\ FramesInOrder(hsLog["I"], "self", "far", hsName["I"], hsPeerName["I"])
          /\ hsClosed["I"]
    /\ hsRes["A"].tag = "Ok" =>
          /\ FramesInOrder(hsLog["A"], "far", "self", hsPeerName["A"], hsName["A"])
          /\ hsClosed["A"]

\* C9: each side checks the received name against its peer table after
\* receiving it and before validator.handshake is invoked; if the name is
\* present the side sends NameTaken and returns the NameTaken error, its
\* validator is never invoked and it never sends HandshakeCompleted.
C9_NameCheckedBeforeValidator ==
    \A s \in Sides :
        /\ hsValidatorInvoked[s] =>
              /\ hsPeerName[s] # ""
              /\ hsPeerName[s] \notin hsPeers[s]
        /\ (hsPeerName[s] # "" /\ hsPeerName[s] \in hsPeers[s]) =>
              /\ hsPc[s] = "done"
              /\ hsRes[s].tag = "Err"
              /\ hsRes[s].errs[1] = "NameTaken"
              /\ Len(hsRes[s].errs) = 1 => hsLog[s][Len(hsLog[s])] = Sent(NameTaken)
              /\ ~hsValidatorInvoked[s]
              /\ \A k \in 1..Len(hsLog[s]) : hsLog[s][k] # Sent(HandshakeCompleted)

\* The acceptor has received a ClientInitiation whose name is in its
\* table, has answered NameTaken and has returned that error alone.
C9_AcceptorAnswersNameTaken ==
    /\ hsPeerName["A"] = "n1"
    /\ "n1" \in hsPeers["A"]
    /\ hsRes["A"] = ErrList(<<"NameTaken">>)
    /\ hsLog["A"] = <<Received(ClientInitiation(HSMagic, "n1")), Sent(NameTaken)>>

(***************************************************************************)
(* The peer handshake (src/src/peer/handshake.rs): handshake(peer,         *)
(* connection, is_server) on the two nodes of one connection.  The client  *)
(* opens the stream and the server accepts it; the frames are PeerMessages *)
(* in their wire encoding.                                                 *)
(***************************************************************************)
Other(n) == IF n = "client" THEN "server" ELSE "client"

\* The connection this handshake runs on, and the one older entries hold.
NewConn == 1
OldConn == 0

PeerNames(table) == {e[1] : e \in table}

\* An insert that is lost.
InsertNothing(table, name, conn) == table

\* HashMap::insert(name, connection): an entry with the key is replaced.
TableInsert(table, name, conn) == {e \in table : e[1] # name} \cup {<<name, conn>>}

\* A response that would satisfy whatever it says.
AnyResponse(m) == m.kind = "HandshakeResponse"

\* PeerMessage::HandshakeResponse(HandshakeResponse::Ok) => ()
Satisfactory(m) == m = MHandshakeResponse("Ok")

\* What framed.recv() may return to node n: the next payload decoded, or
\* a transmission error once the connection has failed or the other node
\* has dropped its end (what it had sent may be lost with it).
PeerRecvOutcomes(n) ==
    (IF phWire[n] # <<>> /\ ~phBroken THEN {RecvResult(Head(phWire[n]))} ELSE {})
       \cup (IF phBroken \/ phGone[Other(n)] THEN {[tag |-> "TransmissionError"]} ELSE {})

\* recv returned a transmission error to node n although a frame was
\* waiting for it.
FrameLost(n, r) == phLost \/ (r.tag = "TransmissionError" /\ phWire[n] # <<>>)

\* Whether framed.send() of node n may succeed, may fail.
PeerSendOutcomes(n) ==
    IF phBroken THEN {FALSE} ELSE IF phGone[Other(n)] THEN BOOLEAN ELSE {TRUE}

\* return from handshake(): the streams are dropped.
PeerReturn(n, res) ==
    /\ phPc' = [phPc EXCEPT ![n] = "done"]
    /\ phRes' = [phRes EXCEPT ![n] = res]
    /\ phGone' = [phGone EXCEPT ![n] = TRUE]

\* framed.send(&m).await?, then on to `next`.
PeerSend(n, m, next) ==
    \E ok \in PeerSendOutcomes(n) :
        IF ok THEN /\ phWire' = [phWire EXCEPT ![Other(n)] = Append(@, Serialize(m))]
                   /\ phPc' = [phPc EXCEPT ![n] = next]
                   /\ UNCHANGED <<phRes, phGone>>
        ELSE /\ PeerReturn(n, Err("FramedError"))
             /\ UNCHANGED phWire

\* accept_bi (server, once the client has opened the stream) or open_bi
\* (client).
PeerOpen(n) ==
    /\ phPc[n] = "start"
    /\ n = "server" => phPc["client"] # "start"
    /\ IF phBroken
       THEN PeerReturn(n, Err("ConnectionError"))
       ELSE /\ phPc' = [phPc EXCEPT ![n] = "initialize"]
            /\ UNCHANGED <<phRes, phGone>>
    /\ UNCHANGED <<phName, phPeers, phPeers0, phWire, phBroken, phFound, phPeerName, phLost>>

\* The channel's purpose: the client sends Initialize(Handshake), the
\* server expects it.
PeerInitialize(n) ==
    /\ phPc[n] = "initialize"
    /\ IF n = "client"
       THEN PeerSend(n, MInitialize(PurposeHandshake), "sendInfo") /\ UNCHANGED phLost
       ELSE \E r \in PeerRecvOutcomes(n) :
               /\ phLost' = FrameLost(n, r)
               /\ phWire' = [phWire EXCEPT ![n] = IF @ = <<>> THEN @ ELSE Tail(@)]
               /\ IF r.tag # "Ok" THEN PeerReturn(n, Err("FramedError"))
                  ELSE IF r.msg # MInitialize(PurposeHandshake)
                  THEN PeerReturn(n, Err("UnexpectedPacket"))
                  ELSE /\ phPc' = [phPc EXCEPT ![n] = "sendInfo"]
                       /\ UNCHANGED <<phRes, phGone>>
    /\ UNCHANGED <<phName, phPeers, phPeers0, phBroken, phFound, phPeerName>>

\* A handshake that goes on to its recv without sending its own info.
PeerSendInfoSkipped(n) ==
    /\ phPc[n] = "sendInfo"
    /\ phPc' = [phPc EXCEPT ![n] = "recvInfo"]
    /\ UNCHANGED <<phName, phPeers, phPeers0, phWire, phGone, phBroken, phRes, phFound,
                   phPeerName, phLost>>

\* framed.send(&PeerMessage::Handshake { name: peer.name.clone() })
PeerSendInfo(n) ==
    /\ phPc[n] = "sendInfo"
    /\ PeerSend(n, MHandshake(phName[n]), "recvInfo")
    /\ UNCHANGED <<phName, phPeers, phPeers0, phBroken, phFound, phPeerName, phLost>>

\* Receive the peer's Handshake; if its name is a key of peer.peers send
\* NameTaken and return the NameTaken error, else send Ok.
PeerRecvInfo(n) ==
    /\ phPc[n] = "recvInfo"
    /\ \E r \in PeerRecvOutcomes(n) : \E ok \in PeerSendOutcomes(n) :
          /\ phLost' = FrameLost(n, r)
          /\ LET rest == IF phWire[n] = <<>> THEN <<>> ELSE Tail(phWire[n])
                 reply(m) == [phWire EXCEPT ![n] = rest,
                                            ![Other(n)] = IF ok THEN Append(@, Serialize(m)) ELSE @]
             IN IF r.tag # "Ok"
                THEN /\ PeerReturn(n, Err("FramedError"))
                     /\ phWire' = [phWire EXCEPT ![n] = rest]
                     /\ UNCHANGED <<phFound, phPeerName>>
                ELSE IF r.msg.kind # "Handshake"
                THEN /\ PeerReturn(n, Err("UnexpectedPacket"))
                     /\ phWire' = [phWire EXCEPT ![n] = rest]
                     /\ UNCHANGED <<phFound, phPeerName>>
                ELSE IF r.msg.name \in PeerNames(phPeers[n])
                THEN /\ phFound' = [phFound EXCEPT ![n] = TRUE]
                     /\ phPeerName' = [phPeerName EXCEPT ![n] = r.msg.name]
                     /\ phWire' = reply(MHandshakeResponse("NameTaken"))
                     /\ PeerReturn(n, IF ok THEN Err("NameTaken") ELSE Err("FramedError"))
                ELSE /\ phWire' = reply(MHandshakeResponse("Ok"))
                     /\ phPeerName' = [phPeerName EXCEPT ![n] = r.msg.name]
                     /\ UNCHANGED phFound
                     /\ IF ok
                        THEN /\ phPc' = [phPc EXCEPT ![n] = "recvResponse"]
                             /\ UNCHANGED <<phRes, phGone>>
                        ELSE PeerReturn(n, Err("FramedError"))
    /\ UNCHANGED <<phName, phPeers, phPeers0, phBroken>>

\* Receive the peer's response; on Ok insert the peer into peer.peers and
\* return its name.
PeerRecvResponse(n) ==
    /\ phPc[n] = "recvResponse"
    /\ \E r \in PeerRecvOutcomes(n) :
          /\ phLost' = FrameLost(n, r)
          /\ phWire' = [phWire EXCEPT ![n] = IF @ = <<>> THEN @ ELSE Tail(@)]
          /\ IF r.tag # "Ok"
             THEN PeerReturn(n, Err("FramedError")) /\ UNCHANGED phPeers
             ELSE IF Satisfactory(r.msg)
             THEN /\ phPeers' = [phPeers EXCEPT ![n] = TableInsert(@, phPeerName[n], NewConn)]
                  /\ PeerReturn(n, OkName(phPeerName[n]))
             ELSE IF r.msg.kind = "HandshakeResponse"
             THEN PeerReturn(n, Err("UnsatisfactoryResponse")) /\ UNCHANGED phPeers
             ELSE PeerReturn(n, Err("UnexpectedPacket")) /\ UNCHANGED phPeers
    /\ UNCHANGED <<phName, phPeers0, phBroken, phFound, phPeerName>>

\* The connection fails.
ConnectionBreaks ==
    /\ ~phBroken
    /\ \E n \in Nodes : phPc[n] # "done"
    /\ phBroken' = TRUE
    /\ UNCHANGED <<phName, phPeers, phPeers0, phPc, phWire, phGone, phRes, phFound,
                   phPeerName, phLost>>

PhSteps(n) ==
    \/ PeerOpen(n)
    \/ PeerInitialize(n)
    \/ PeerSendInfo(n)
    \/ PeerRecvInfo(n)
    \/ PeerRecvResponse(n)

PhNext ==
    \/ \E n \in Nodes : PeerOpen(n) /\ UNCHANGED nonPhVars
    \/ \E n \in Nodes : PeerInitialize(n) /\ UNCHANGED nonPhVars
    \/ \E n \in Nodes : PeerSendInfo(n) /\ UNCHANGED nonPhVars
    \/ \E n \in Nodes : PeerRecvInfo(n) /\ UNCHANGED nonPhVars
    \/ \E n \in Nodes : PeerRecvResponse(n) /\ UNCHANGED nonPhVars
    \/ ConnectionBreaks /\ UNCHANGED nonPhVars

PhNameSet == {<<97>>, <<98>>}

\* Two nodes with any names, and tables that hold any of the names on
\* older connections.
PhInit ==
    /\ phName \in [Nodes -> PhNameSet]
    /\ phPeers \in [Nodes -> SUBSET {<<nm, OldConn>> : nm \in PhNameSet}]
    /\ phPeers0 = phPeers
    /\ phPc = [n \in Nodes |-> "start"]
    /\ phWire = [n \in Nodes |-> <<>>]
    /\ phGone = [n \in Nodes |-> FALSE]
    /\ phBroken = FALSE
    /\ phRes = [n \in Nodes |-> None]
    /\ phFound = [n \in Nodes |-> FALSE]
    /\ phPeerName = [n \in Nodes |-> <<>>]
    /\ phLost = FALSE
    /\ RegIdle /\ FrameIdle /\ ChanIdle /\ HsIdle /\ SizeIdle /\ NodeIdle /\ ActorIdle /\ PoisonIdle /\ RaceIdle /\ GuardIdle /\ LockIdle /\ NsIdle

SpecPeerHS == PhInit /\ [][PhNext]_vars

\* Each call is a task that is polled again once what it awaits is ready.
PhFairStep(n) == PhSteps(n) /\ UNCHANGED nonPhVars

SpecPeerHSFair == PhInit /\ [][PhNext]_vars /\ \A n \in Nodes : WF_vars(PhFairStep(n))

\* Node n is inside framed.recv() and nothing is there for it to return.
BlockedInRecv(n) ==
    /\ \/ phPc[n] \in {"recvInfo", "recvResponse"}
       \/ n = "server" /\ phPc[n] = "initialize"
    /\ PeerRecvOutcomes(n) = {}

\* The transport has delivered every frame so far.
Delivers == ~phBroken /\ ~phLost

\* C39: when the two sides run handshake on the same connection, both calls
\* terminate and no state is reachable in which both are blocked waiting to
\* receive; over a transport that delivers every frame, with distinct names
\* that are in neither table, both return Ok with the counterparty's name.
C39_BothTerminateNeverBothBlocked ==
    /\ [](~(\A n \in Nodes : BlockedInRecv(n)))
    /\ <>(\A n \in Nodes : phPc[n] = "done")
    /\ []((/\ \A n \in Nodes : phPc[n] = "done"
           /\ Delivers
           /\ phName["client"] # phName["server"]
           /\ \A n \in Nodes : phName[Other(n)] \notin PeerNames(phPeers0[n]))
             => \A n \in Nodes : phRes[n] = OkName(phName[Other(n)]))

\* Both calls have returned Ok over a transport that delivered every frame;
\* the names differ and the client's table held its own name before.
C39_BothOkDistinctNames ==
    /\ \A n \in Nodes : phRes[n] = OkName(phName[Other(n)])
    /\ Delivers
    /\ phName["client"] # phName["server"]
    /\ phPeers0["client"] = {<<phName["client"], OldConn>>}
    /\ phPeers0["server"] = {}

\* C10: when, during a handshake, one side finds the counterparty's name
\* already in its peer table, the handshake fails on both sides and neither
\* node's peer table gains or replaces an entry: from then on no side
\* returns Ok, a side that has not returned yet can still take the step
\* that makes it return, and both tables are what they were.
C10_NameCollisionFailsBoth ==
    \A n \in Nodes :
        phFound[n] =>
            /\ \A m \in Nodes : phRes[m].tag # "Ok"
            /\ phRes[n].tag = "Err"
            /\ phPc[Other(n)] # "done" => ENABLED PhSteps(Other(n))
            /\ phPeers = phPeers0

\* The client found the server's name in its table and returned NameTaken;
\* the server, which had answered Ok, got the NameTaken response and
\* returned UnsatisfactoryResponse.
C10_CollisionSeenByClient ==
    /\ phFound["client"] /\ ~phFound["server"]
    /\ phRes["client"] = Err("NameTaken")
    /\ phRes["server"] = Err("UnsatisfactoryResponse")

\* C11: once the handshake has returned success on both nodes, the peer
\* table of each node holds exactly one entry under the other node's name,
\* and that entry holds the connection the handshake ran on.
C11_BothOkTablesHoldPeer ==
    (\A n \in Nodes : phRes[n].tag = "Ok") =>
        \A n \in Nodes :
            /\ phRes[n] = OkName(phName[Other(n)])
            /\ {e \in phPeers[n] : e[1] = phName[Other(n)]}
                   = {<<phName[Other(n)], NewConn>>}

\* Both nodes returned Ok, and the server's table also keeps an older entry
\* under another name.
C11_BothOkBesideOlderEntry ==
    /\ \A n \in Nodes : phRes[n].tag = "Ok"
    /\ phName = [n \in Nodes |-> IF n = "client" THEN <<97>> ELSE <<98>>]
    /\ phPeers["server"] = {<<(<<97>>), NewConn>>, <<(<<98>>), OldConn>>}
    /\ phPeers["client"] = {<<(<<98>>), NewConn>>}

\* C12: a peer table changes only in the step in which the handshake on
\* that node returns Ok, and then by the insertion of the returned name; a
\* handshake that returned an error has left the table as it was.
C12_InsertOnlyOnSuccess ==
    /\ \A n \in Nodes :
          /\ phRes[n].tag = "Err" => phPeers[n] = phPeers0[n]
          /\ phRes[n].tag = "Ok" => phPeers[n] = TableInsert(phPeers0[n], phRes[n].name, NewConn)
          /\ phRes[n] = None => phPeers[n] = phPeers0[n]

\* The client returned an error after the server had inserted it: the
\* connection failed between the server's last recv and the client's.
C12_ErrorLeavesTable ==
    /\ phRes["server"].tag = "Ok"
    /\ phRes["client"] = Err("FramedError")
    /\ phPc["client"] = "done"
    /\ phPeers0["client"] # {}
    /\ phPeers["client"] = phPeers0["client"]
    /\ phPeers["server"] # phPeers0["server"]

\* The reason frame the handshake owes for a received frame, if it is one
\* of the four: undecodable, wrong variant, wrong magic, name in the table.
ReasonOwed(item, expected, table) ==
    IF item.kind = "Undecodable" THEN <<MalformedData>>
    ELSE IF item.kind # expected THEN <<UnexpectedPacket>>
    ELSE IF item.magic # HSMagic THEN <<InvalidMagic>>
    ELSE IF item.name \in table THEN <<NameTaken>>
    ELSE <<>>

\* C13: the initiator that aborts because the frame it received is
\* undecodable, is no ServerResponse, carries a wrong magic or names a peer
\* that is in its table has sent, as the last frame before it returned and
\* unless the transport failed that send, the reason frame of that case:
\* MalformedData, UnexpectedPacket, InvalidMagic or NameTaken.
C13_AbortSendsItsReason ==
    LET log == hsLog["I"]
        far == {k \in 1..Len(log) : log[k].from = "far"}
    IN (/\ hsPc["I"] = "done"
        /\ hsRes["I"].tag = "Err"
        /\ hsRes["I"] # Err("TransmissionError")
        /\ far # {})
          => \A k \in far :
                LET owed == ReasonOwed(log[k].msg, "ServerResponse", hsPeers["I"])
                IN owed # <<>> => /\ Len(log) = k + 1
                                  /\ log[k + 1] = Sent(owed[1])

\* The terminal reason frame that goes with a detected error, if any.
ReasonFrame(err) ==
    CASE err = "InvalidEncoding" -> <<MalformedData>>
      [] err = "UnexpectedPacket" -> <<UnexpectedPacket>>
      [] err = "InvalidMagic" -> <<InvalidMagic>>
      [] err = "NameTaken" -> <<NameTaken>>
      [] OTHER -> <<>>

RECURSIVE TrailingFailures(_)
TrailingFailures(log) ==
    IF log = <<>> THEN 0
    ELSE IF log[Len(log)] # "failed" THEN 0
    ELSE 1 + TrailingFailures(SubSeq(log, 1, Len(log) - 1))

\* C16: Channel::run has terminated exactly when its last five recv calls
\* all failed, and it calls recv no more after that; every recv that
\* decodes a frame sets the count of failures back to zero; a decoded frame
\* that is no Response, or a Response whose request_id has no pending slot,
\* leaves the loop running and the registry, the timeout queue and every
\* response channel as they were.
C16_RunStopsAtFiveFailures ==
    /\ [](/\ error_counter = TrailingFailures(recvLog)
          /\ RunLoopAlive <=> TrailingFailures(recvLog) < 5)
    /\ [][recvLog' # recvLog =>
            /\ TrailingFailures(recvLog) < 5
            /\ recvLog'[Len(recvLog')] = "decoded" =>
                  /\ error_counter' = 0
                  /\ LET m == Deserialize(Head(inWire))
                     IN (m.kind # "Response" \/ ~SlotContains(channels, m.request_id)) =>
                           /\ RunLoopAlive'
                           /\ channels' = channels
                           /\ timeout_queue' = timeout_queue
                           /\ oneshot' = oneshot
                           /\ rpc' = rpc]_vars

\* While a request waited, the remote wrote a frame the loop discarded and
\* then finished its stream; the loop stopped after five failed recv calls
\* and the request still waits with its slot in the registry.
C16_DiscardThenFiveFailures ==
    /\ recvLog = <<"decoded", "failed", "failed", "failed", "failed", "failed">>
    /\ ~RunLoopAlive
    /\ delivered = <<>>
    /\ Len(calls) = 1
    /\ calls[1].st = "waiting"
    /\ SlotContains(channels, calls[1].key)

\* C28: a Request frame received by a channel's run loop is delivered to
\* the local handler inbox of the channel's actor rather than being matched
\* against the pending response slots.  The run loop has the framed
\* receiver and the responders and nothing to deliver to, so a delivered
\* Request is one that the loop has not dropped: no Request is among the
\* messages dropped before the lookup in the registry.
C28_RequestReachesHandler ==
    \A i \in 1..Len(discarded) : discarded[i].kind # "Request"

(***************************************************************************)
(* The node.  Palantir::run (src/src/lib.rs) and Peer::run_forever         *)
(* (src/src/peer/mod.rs) are two accept loops; ndKind says which one runs. *)
(* The validator's verdicts, the transport's results and the handshake of  *)
(* Peer (followed step by step under SpecPeerHS) are inputs of the steps.  *)
(* A task of the join set takes a step when it is polled; an aborted task  *)
(* is polled no more.                                                      *)
(***************************************************************************)
NodeNames == {"", "n1"}

\* What request.headers().get("name") may hold.
NameHeaders == {<<>>} \cup {<<n>> : n \in NodeNames}

\* The loop gives the session up and returns.
ReturnOnFailure(fate) ==
    /\ ndPc' = "returned"
    /\ ndFate' = fate
    /\ ndRunRes' = Err("SessionError")

\* incoming.refuse() / request.forbidden().await / nothing, then `continue`.
NextSession(fate) ==
    /\ ndPc' = "accept"
    /\ ndFate' = fate
    /\ UNCHANGED ndRunRes

\* The loop goes on with the session in hand.
GoOn(pc) ==
    /\ ndPc' = pc
    /\ UNCHANGED <<ndFate, ndRunRes>>

\* A drop that leaves the tasks alone when the mutex is poisoned.
DropUnlessPoisoned(tasks, poisoned) ==
    IF poisoned THEN tasks
    ELSE [i \in 1..Len(tasks) |->
            IF tasks[i].st = "running" THEN [tasks[i] EXCEPT !.st = "aborted"] ELSE tasks[i]]

\* Drop for Peer: Ok(mut js) => js.abort_all(), Err(e) =>
\* e.into_inner().abort_all(); for Palantir the JoinSet is dropped with the
\* struct, which aborts its tasks.
DropJoinSet(tasks, poisoned) ==
    [i \in 1..Len(tasks) |->
        IF tasks[i].st = "running" THEN [tasks[i] EXCEPT !.st = "aborted"] ELSE tasks[i]]

\* join_set.lock().expect(..).spawn(future)
Spawn(kind, name) ==
    ndTasks' = Append(ndTasks, [kind |-> kind, name |-> name, session |-> ndCount,
                                st |-> "running"])

\* Endpoint::server(config)?
RunCreateEndpoint ==
    /\ ndPc = "idle"
    /\ ~ndDropped
    /\ \E ok \in BOOLEAN :
          IF ok THEN GoOn("accept")
          ELSE /\ ndPc' = "returned"
               /\ ndRunRes' = Err("EndpointCreationError")
               /\ UNCHANGED ndFate
    /\ UNCHANGED <<ndKind, ndHeader, ndTrace, ndCount, ndPeers, ndTasks, ndPoisoned,
                   ndDropped, ndCallbacks, ndInvoked, ndStreams, ndClosed>>

\* let incoming = endpoint.accept().await;
AcceptSession(header) ==
    /\ ndPc = "accept"
    /\ ndCount < MaxSessions
    /\ ndCount' = ndCount + 1
    /\ ndHeader' = header
    /\ ndTrace' = <<>>
    /\ ndPc' = "validateIncoming"
    /\ ndFate' = "pending"
    /\ UNCHANGED <<ndKind, ndPeers, ndTasks, ndPoisoned, ndDropped, ndRunRes,
                   ndCallbacks, ndInvoked, ndStreams, ndClosed>>

\* validator.validate_incoming_session(&incoming): on refusal
\* incoming.refuse(); continue.
ValidateIncomingSession ==
    /\ ndPc = "validateIncoming"
    /\ ndTrace' = Append(ndTrace, "validate_incoming_session")
    /\ \E valid \in BOOLEAN :
          IF valid THEN GoOn("await") ELSE NextSession("refused")
    /\ UNCHANGED <<ndKind, ndHeader, ndCount, ndPeers, ndTasks, ndPoisoned, ndDropped,
                   ndCallbacks, ndInvoked, ndStreams, ndClosed>>

\* let Ok(request) = incoming.await else { continue; };
AwaitIncoming ==
    /\ ndPc = "await"
    /\ \E ok \in BOOLEAN :
          IF ok THEN GoOn(IF ndKind = "Palantir" THEN "nameHeader" ELSE "validateRequest")
          ELSE NextSession("dropped")
    /\ UNCHANGED <<ndKind, ndHeader, ndTrace, ndCount, ndPeers, ndTasks, ndPoisoned,
                   ndDropped, ndCallbacks, ndInvoked, ndStreams, ndClosed>>

\* Palantir::run only: the name header must be set, and the name must be
\* no key of self.peers; else request.forbidden().await; continue.
CheckNameHeader ==
    /\ ndPc = "nameHeader"
    /\ ndTrace' = Append(ndTrace, "name_header")
    /\ IF ndHeader = <<>> THEN NextSession("forbidden")
       ELSE IF ndHeader[1] \in ndPeers THEN NextSession("forbidden")
       ELSE GoOn("validateRequest")
    /\ UNCHANGED <<ndKind, ndHeader, ndCount, ndPeers, ndTasks, ndPoisoned, ndDropped,
                   ndCallbacks, ndInvoked, ndStreams, ndClosed>>

\* validator.validate_session_request(..): if false
\* request.forbidden().await; continue.
ValidateSessionRequest ==
    /\ ndPc = "validateRequest"
    /\ ndTrace' = Append(ndTrace, "validate_session_request")
    /\ \E valid \in BOOLEAN :
          IF valid THEN GoOn("establish") ELSE NextSession("forbidden")
    /\ UNCHANGED <<ndKind, ndHeader, ndCount, ndPeers, ndTasks, ndPoisoned, ndDropped,
                   ndCallbacks, ndInvoked, ndStreams, ndClosed>>

\* let Ok(connection) = request.accept().await else { continue; };
AcceptConnection ==
    /\ ndPc = "establish"
    /\ \E ok \in BOOLEAN :
          IF ok THEN /\ ndTrace' = Append(ndTrace, "accept")
                     /\ GoOn(IF ndKind = "Palantir" THEN "spawn" ELSE "handshake")
          ELSE /\ NextSession("dropped")
               /\ UNCHANGED ndTrace
    /\ UNCHANGED <<ndKind, ndHeader, ndCount, ndPeers, ndTasks, ndPoisoned, ndDropped,
                   ndCallbacks, ndInvoked, ndStreams, ndClosed>>

\* Palantir::run: spawn(self.clone().handle_connection(connection, .., name))
SpawnConnectionHandler ==
    /\ ndPc = "spawn"
    /\ Len(ndTasks) < MaxTasks
    /\ Spawn("connection", ndHeader[1])
    /\ ndTrace' = Append(ndTrace, "spawn")
    /\ NextSession("spawned")
    /\ UNCHANGED <<ndKind, ndHeader, ndCount, ndPeers, ndPoisoned, ndDropped,
                   ndCallbacks, ndInvoked, ndStreams, ndClosed>>

\* Peer::run_forever: let Ok(name) = handshake(self, connection, true).await
\* else { continue; }; the handshake that returns Ok has inserted the name,
\* which was no key of the table.
InboundHandshake ==
    /\ ndPc = "handshake"
    /\ ndTrace' = Append(ndTrace, "handshake")
    /\ \/ \E name \in NodeNames \ ndPeers :
             /\ ndPeers' = ndPeers \cup {name}
             /\ NextSession("handshaken")
       \/ /\ NextSession("dropped")
          /\ UNCHANGED ndPeers
    /\ UNCHANGED <<ndKind, ndHeader, ndCount, ndTasks, ndPoisoned, ndDropped,
                   ndCallbacks, ndInvoked, ndStreams, ndClosed>>

\* The future of run / run_forever is dropped while it waits.
CancelRun ==
    /\ ndPc \notin {"idle", "returned", "cancelled"}
    /\ ndPc' = "cancelled"
    /\ UNCHANGED <<ndKind, ndHeader, ndTrace, ndFate, ndCount, ndPeers, ndTasks,
                   ndPoisoned, ndDropped, ndRunRes, ndCallbacks, ndInvoked, ndStreams, ndClosed>>

\* A handle_connection that returns after its first stream.
AcceptBiOnce(i, ok) ==
    /\ ok
    /\ Len(ndTasks) < MaxTasks
    /\ ndTasks' = Append([ndTasks EXCEPT ![i].st = "finished"],
                         [kind |-> "channel", name |-> ndTasks[i].name,
                          session |-> ndCount, st |-> "running"])
    /\ ndStreams' = Append(ndStreams, [conn |-> i, task |-> Len(ndTasks) + 1, garbled |-> 0])
    /\ UNCHANGED ndClosed

\* What the loop of handle_connection does with the result of accept_bi:
\* Ok((send, recv)) is framed and handle_channel is spawned for it; an error
\* closes the connection and returns.
AcceptBi(i, ok) ==
    IF ok
    THEN /\ Len(ndTasks) < MaxTasks
         /\ Spawn("channel", ndTasks[i].name)
         /\ ndStreams' = Append(ndStreams, [conn |-> i, task |-> Len(ndTasks) + 1, garbled |-> 0])
         /\ UNCHANGED ndClosed
    ELSE /\ ndTasks' = [ndTasks EXCEPT ![i].st = "finished"]
         /\ ndClosed' = ndClosed \cup {i}
         /\ UNCHANGED ndStreams

\* Palantir::handle_connection, one turn of its loop.
HandleConnection(i) ==
    /\ ndTasks[i].kind = "connection"
    /\ ndTasks[i].st = "running"
    /\ \E ok \in BOOLEAN : AcceptBi(i, ok)
    /\ UNCHANGED <<ndKind, ndPc, ndHeader, ndTrace, ndFate, ndCount, ndPeers,
                   ndPoisoned, ndDropped, ndRunRes, ndCallbacks, ndInvoked>>

\* The peer writes a frame that is no PalantirMessage on a stream the node
\* has accepted: nothing of the node reads it.
StreamGarbled(k) ==
    /\ ndStreams[k].garbled = 0
    /\ ndStreams' = [ndStreams EXCEPT ![k].garbled = Len(ndStreams)]
    /\ UNCHANGED <<ndKind, ndPc, ndHeader, ndTrace, ndFate, ndCount, ndPeers, ndTasks,
                   ndPoisoned, ndDropped, ndRunRes, ndCallbacks, ndInvoked, ndClosed>>

\* Palantir::handle_channel, whose body is empty, and the run future of a
\* Channel, which returns after five failed recv calls.
TaskReturns(i) ==
    /\ ndTasks[i].kind \in {"channel", "run"}
    /\ ndTasks[i].st = "running"
    /\ ndTasks' = [ndTasks EXCEPT ![i].st = "finished"]
    /\ UNCHANGED <<ndKind, ndPc, ndHeader, ndTrace, ndFate, ndCount, ndPeers,
                   ndPoisoned, ndDropped, ndRunRes, ndCallbacks, ndInvoked, ndStreams, ndClosed>>

\* Peer::open_channel to a peer of the table: the run future of the new
\* Channel is spawned; a spawn that panics, as it does when no runtime is
\* entered, does so with the lock held and poisons the mutex.
OpenChannel ==
    /\ ndKind = "Peer"
    /\ ~ndDropped
    /\ ~ndPoisoned
    /\ Len(ndTasks) < MaxTasks
    /\ \E name \in ndPeers : \E panics \in BOOLEAN :
          IF panics THEN ndPoisoned' = TRUE /\ UNCHANGED ndTasks
          ELSE Spawn("run", name) /\ UNCHANGED ndPoisoned
    /\ UNCHANGED <<ndKind, ndPc, ndHeader, ndTrace, ndFate, ndCount, ndPeers,
                   ndDropped, ndRunRes, ndCallbacks, ndInvoked, ndStreams, ndClosed>>

\* Palantir::on_new_connection: callbacks.push(Box::new(callback))
OnNewConnection ==
    /\ ndKind = "Palantir"
    /\ ~ndDropped
    /\ Len(ndCallbacks) < MaxCallbacks
    /\ ndCallbacks' = Append(ndCallbacks, ndCount)
    /\ UNCHANGED <<ndKind, ndPc, ndHeader, ndTrace, ndFate, ndCount, ndPeers, ndTasks,
                   ndPoisoned, ndDropped, ndRunRes, ndInvoked, ndStreams, ndClosed>>

\* The last reference to the node goes and the node is dropped.  run and
\* run_forever borrow the node or hold an Arc of it, and so does every
\* task of a Palantir: it is dropped only when none of them is left.
DropNode ==
    /\ ~ndDropped
    /\ ndPc \in {"idle", "returned", "cancelled"}
    /\ ndKind = "Palantir" => \A i \in 1..Len(ndTasks) : ndTasks[i].st # "running"
    /\ ndDropped' = TRUE
    /\ ndTasks' = DropJoinSet(ndTasks, ndPoisoned)
    /\ UNCHANGED <<ndKind, ndPc, ndHeader, ndTrace, ndFate, ndCount, ndPeers,
                   ndPoisoned, ndRunRes, ndCallbacks, ndInvoked, ndStreams, ndClosed>>

NodeNext ==
    \/ RunCreateEndpoint /\ UNCHANGED nonNodeVars
    \/ \E header \in NameHeaders : AcceptSession(header) /\ UNCHANGED nonNodeVars
    \/ ValidateIncomingSession /\ UNCHANGED nonNodeVars
    \/ AwaitIncoming /\ UNCHANGED nonNodeVars
    \/ CheckNameHeader /\ UNCHANGED nonNodeVars
    \/ ValidateSessionRequest /\ UNCHANGED nonNodeVars
    \/ AcceptConnection /\ UNCHANGED nonNodeVars
    \/ SpawnConnectionHandler /\ UNCHANGED nonNodeVars
    \/ InboundHandshake /\ UNCHANGED nonNodeVars
    \/ CancelRun /\ UNCHANGED nonNodeVars
    \/ \E i \in 1..Len(ndTasks) : HandleConnection(i) /\ UNCHANGED nonNodeVars
    \/ \E i \in 1..Len(ndTasks) : TaskReturns(i) /\ UNCHANGED nonNodeVars
    \/ \E k \in 1..Len(ndStreams) : StreamGarbled(k) /\ UNCHANGED nonNodeVars
    \/ OpenChannel /\ UNCHANGED nonNodeVars
    \/ OnNewConnection /\ UNCHANGED nonNodeVars
    \/ DropNode /\ UNCHANGED nonNodeVars

\* A node of either kind after new(); the table of a Palantir may hold the
\* peers new_peer has added.
NodeInit ==
    /\ ndKind \in {"Palantir", "Peer"}
    /\ ndPc = "idle"
    /\ ndHeader = <<>>
    /\ ndTrace = <<>>
    /\ ndFate = "none"
    /\ ndCount = 0
    /\ ndPeers \in (IF ndKind = "Palantir" THEN {{}, {"n1"}} ELSE {{}})
    /\ ndTasks = <<>>
    /\ ndPoisoned = FALSE
    /\ ndDropped = FALSE
    /\ ndRunRes = None
    /\ ndCallbacks = <<>>
    /\ ndInvoked = <<>>
    /\ ndStreams = <<>>
    /\ ndClosed = {}
    /\ RegIdle /\ FrameIdle /\ ChanIdle /\ HsIdle /\ PhIdle /\ SizeIdle /\ ActorIdle /\ PoisonIdle /\ RaceIdle /\ GuardIdle /\ LockIdle /\ NsIdle

SpecNode == NodeInit /\ [][NodeNext]_vars

(***************************************************************************)
(* Claims about the node.                                                  *)
(***************************************************************************)
\* The five steps of the accept loop, in the order claimed.
ClaimedOrder ==
    <<"validate_incoming_session", "name_header", "validate_session_request",
      "accept", "spawn">>

\* C14: for every incoming session the accept loop performs, in this
\* order, validate_incoming_session, the name-header check,
\* validate_session_request, the acceptance of the connection and the spawn
\* of the connection handler: the steps run for a session are always the
\* first steps of that order, all five for a session that came through; a
\* session that failed a check is refused or forbidden with no step after
\* the failed one, and no step follows a transport error either.
C14_AcceptLoopOrder ==
    /\ Len(ndTrace) <= Len(ClaimedOrder)
    /\ ndTrace = SubSeq(ClaimedOrder, 1, Len(ndTrace))
    /\ ndFate \in {"none", "pending", "refused", "forbidden", "dropped", "spawned"}
    /\ ndFate = "spawned" <=> ndTrace = ClaimedOrder
    /\ ndFate = "refused" => ndTrace = SubSeq(ClaimedOrder, 1, 1)

\* C15: an incoming session of Palantir::run whose name header is missing,
\* is the empty string, or is a name already in the peer table is
\* rejected: its connection is not accepted and no connection handler is
\* spawned for it.
C15_BadNameRejected ==
    (/\ ndKind = "Palantir"
     /\ ndFate # "none"
     /\ (ndHeader = <<>> \/ ndHeader = <<"">> \/ ndHeader[1] \in ndPeers))
        => /\ ndFate # "spawned"
           /\ \A k \in 1..Len(ndTrace) : ndTrace[k] \notin {"accept", "spawn"}

C18_CallbacksInvokedOnce ==
    \A i \in 1..Len(ndTasks) :
        (ndTasks[i].kind = "channel" /\ ndTasks[i].st = "finished") =>
            \A c \in 1..Len(ndCallbacks) :
                ndCallbacks[c] < ndTasks[i].session =>
                    Cardinality({k \in 1..Len(ndInvoked) :
                                    ndInvoked[k] = <<c, ndTasks[i].name>>}) = 1

\* C19: the accept loop returns only when creating the endpoint failed:
\* whenever run or run_forever has returned, it returned the endpoint's
\* error and no session had been taken; a session that is refused,
\* forbidden or lost to a transport or handshake error leaves the loop at
\* endpoint.accept().
C19_ReturnsOnlyOnEndpointError ==
    /\ ndPc = "returned" => ndRunRes = Err("EndpointCreationError") /\ ndCount = 0
    /\ ndRunRes # None => ndPc = "returned"
    /\ (ndFate \in {"refused", "forbidden", "dropped"} /\ ndPc # "cancelled") =>
          ndPc = "accept"

\* Two sessions have failed, the first refused and the second forbidden,
\* and the loop waits for the next.
C19_LoopSurvivesTwoFailures ==
    /\ ndCount = 2
    /\ ndFate = "forbidden"
    /\ ndPc = "accept"
    /\ ndRunRes = None

\* C34: in handle_connection every accepted bidirectional stream is handed
\* to its own handler task and the loop goes on accepting; a frame that does
\* not decode on one stream neither ends the loop of its connection nor
\* touches another stream; the loop ends, closing the connection, only when
\* accepting a stream fails.
C34_StreamsHaveOwnHandlers ==
    /\ \A k \in 1..Len(ndStreams) :
          /\ ndStreams[k].task \in 1..Len(ndTasks)
          /\ ndTasks[ndStreams[k].task].kind = "channel"
          /\ ndTasks[ndStreams[k].conn].kind = "connection"
          /\ \A l \in 1..Len(ndStreams) : ndStreams[l].task = ndStreams[k].task => l = k
    /\ \A i \in 1..Len(ndTasks) :
          ndTasks[i].kind = "connection" =>
              /\ ndTasks[i].st \in {"running", "finished"}
              /\ ndTasks[i].st = "finished" <=> i \in ndClosed

\* The first stream of a connection carried a frame that does not decode
\* before the second was accepted; both have a handler and the loop of the
\* connection still runs.
C34_AcceptedAfterBadStream ==
    /\ Len(ndStreams) = 2
    /\ ndStreams[1].garbled = 1
    /\ ndStreams[2].conn = ndStreams[1].conn
    /\ ndTasks[ndStreams[1].conn].st = "running"
    /\ ndTasks[ndStreams[2].task].st = "running"

(***************************************************************************)
(* ActorID::from_identifier (actor_id.rs).  A string is the sequence of    *)
(* its characters; an Identifier is one of fluxion's four variants.        *)
(***************************************************************************)
ActorNames == {<<"a">>, <<"a", "b">>, <<>>}
SystemNames == {<<"s">>, <<"s", "t">>, <<>>}

Identifiers ==
    {[variant |-> "Local", id |-> n] : n \in 0..MaxActorId}
    \cup {[variant |-> "LocalNamed", name |-> a] : a \in ActorNames}
    \cup {[variant |-> "Foreign", id |-> n, system |-> y] : n \in 0..MaxActorId, y \in SystemNames}
    \cup {[variant |-> "ForeignNamed", name |-> a, system |-> y] : a \in ActorNames, y \in SystemNames}

\* str::to_string: a new String holding the same characters.
StrToString(str) == [i \in 1..Len(str) |-> str[i]]

\* from_identifier with the catch-all arm taking the Foreign variant too.
FromIdentifierNamedOnly(identifier) ==
    IF identifier.variant = "ForeignNamed"
    THEN Some([variant |-> "ForeignNamed", name |-> StrToString(identifier.name),
               system |-> StrToString(identifier.system)])
    ELSE None

\* ActorID::from_identifier
FromIdentifier(identifier) ==
    CASE identifier.variant = "Foreign" ->
            Some([variant |-> "Foreign", id |-> identifier.id,
                  system |-> StrToString(identifier.system)])
      [] identifier.variant = "ForeignNamed" ->
            Some([variant |-> "ForeignNamed", name |-> StrToString(identifier.name),
                  system |-> StrToString(identifier.system)])
      [] OTHER -> None

\* One call of ActorID::from_identifier.
CallFromIdentifier ==
    /\ aiResult = <<>>
    /\ aiResult' = <<FromIdentifier(aiIdentifier)>>
    /\ UNCHANGED <<aiIdentifier, nonActorVars>>

ActorNext == CallFromIdentifier

ActorInit ==
    /\ aiIdentifier \in Identifiers
    /\ aiResult = <<>>
    /\ RegIdle /\ FrameIdle /\ ChanIdle /\ HsIdle /\ PhIdle /\ SizeIdle /\ NodeIdle /\ PoisonIdle /\ RaceIdle /\ GuardIdle /\ LockIdle /\ NsIdle

SpecActorID == ActorInit /\ [][ActorNext]_vars

\* C22: from_identifier returns None for both local variants and, for each
\* foreign variant, the foreign actor id of the same variant with the same
\* numeric id or name and the same system name.
C22_FromIdentifier ==
    aiResult # <<>> =>
        CASE aiIdentifier.variant \in {"Local", "LocalNamed"} -> aiResult[1] = None
          [] aiIdentifier.variant = "Foreign" ->
                /\ aiResult[1].tag = "Some"
                /\ aiResult[1].val.variant = "Foreign"
                /\ aiResult[1].val.id = aiIdentifier.id
                /\ aiResult[1].val.system = aiIdentifier.system
          [] aiIdentifier.variant = "ForeignNamed" ->
                /\ aiResult[1].tag = "Some"
                /\ aiResult[1].val.variant = "ForeignNamed"
                /\ aiResult[1].val.name = aiIdentifier.name
                /\ aiResult[1].val.system = aiIdentifier.system

\* A numeric foreign identifier with a non-empty system name was converted.
C22_ForeignConverted ==
    /\ aiResult # <<>>
    /\ aiIdentifier.variant = "Foreign"
    /\ aiIdentifier.id = MaxActorId
    /\ Len(aiIdentifier.system) = 2
    /\ aiResult[1].tag = "Some"

(***************************************************************************)
(* TimeoutChannels::recover (timeout.rs).  A thread that panics inside     *)
(* add, pop or tick while it holds a guard poisons the mutex and leaves    *)
(* the slotmap and the deque as they were at that point; the next caller   *)
(* that finds a mutex poisoned runs recover.                               *)
(***************************************************************************)
\* channels.remove(*i) for every key of a set; a key that is absent is left
\* alone by SlotMap::remove, so the order does not matter.
RECURSIVE RemoveKeys(_, _)
RemoveKeys(sm, keys) ==
    IF keys = {} THEN sm
    ELSE LET k == CHOOSE x \in keys : TRUE
         IN RemoveKeys(SlotRemove(sm, k).map, keys \ {k})

Reverse(q) == [i \in 1..Len(q) |-> q[Len(q) + 1 - i]]

\* The positions (counted from 0 in tq.iter().rev().enumerate()) whose key
\* was seen earlier in that iteration.
RemoveIndexes(q) ==
    LET r == Reverse(q)
        dup == {i \in 1..Len(r) : \E j \in 1..(i - 1) : r[j].key = r[i].key}
    IN [n \in 1..Cardinality(dup) |->
           (CHOOSE i \in dup : Cardinality({j \in dup : j < i}) = n - 1) - 1]

\* for i in remove_indexes { tq.remove(i); }: VecDeque::remove counts from
\* the front and returns None when the index is out of bounds.
RECURSIVE RemoveEach(_, _)
RemoveEach(q, idx) ==
    IF idx = <<>> THEN q
    ELSE RemoveEach(IF Head(idx) + 1 <= Len(q) THEN RemoveAt(q, Head(idx) + 1) ELSE q,
                    Tail(idx))

\* The body of recover on the deque and the slotmap behind the two guards.
RecoverBody(tq, sm) ==
    LET tq_set == QueueKeys(tq)
        channels_set == SlotKeys(sm)
        difference == (tq_set \ channels_set) \cup (channels_set \ tq_set)
        tq_duplicated == Cardinality(tq_set) # Len(tq)
    IN IF difference = {} /\ ~tq_duplicated
       THEN [tq |-> tq, channels |-> sm]
       ELSE LET \* if tq_set.contains(i) { channels.remove(*i); }
                sm1 == RemoveKeys(sm, difference \cap tq_set)
                \* if channels_set.contains(i) { tq.retain(|v| v.1 != *i); }
                tq1 == SelectSeq(tq, LAMBDA v : v.key \notin (difference \cap channels_set))
            IN [tq |-> IF tq_duplicated THEN RemoveEach(tq1, RemoveIndexes(tq1)) ELSE tq1,
                channels |-> sm1]

\* One run of recover, called by add, pop or tick on a poisoned mutex.
Recover ==
    /\ ~recovered
    /\ tq_poisoned \/ channels_poisoned
    /\ LET r == RecoverBody(timeout_queue, channels)
       IN /\ timeout_queue' = r.tq
          /\ channels' = r.channels
          /\ oneshot' = CloseAll(oneshot, {SlotGet(channels, k) :
                                             k \in SlotKeys(channels) \ SlotKeys(r.channels)})
    \* self.timeout_queue.clear_poison(); self.channels.clear_poison();
    /\ tq_poisoned' = FALSE
    /\ channels_poisoned' = FALSE
    /\ recovered' = TRUE
    /\ UNCHANGED <<tqLock, now, rpc, rarg, issued, gonePop, goneTick, lastPop>>

RecoverNext == Recover /\ UNCHANGED nonPoisonRegVars

\* SlotMap after n calls of insert.
RECURSIVE InsertN(_)
InsertN(n) == IF n = 0 THEN EmptySlotMap ELSE SlotInsert(InsertN(n - 1), n).map

RecKeys == {<<i, 1>> : i \in 1..MaxRecKeys}

\* add has issued MaxRecKeys keys.  Any of them may have left the slotmap
\* (pop's first step, or tick) and any of them may be missing from the deque
\* (never pushed by an add that panicked after its insert, or popped from
\* the front by a tick that panicked before its remove); the deque keeps
\* the order of insertion.  One mutex or both are poisoned.
RecoverInit ==
    /\ \E live \in SUBSET RecKeys :
          /\ channels = RemoveKeys(InsertN(MaxRecKeys), RecKeys \ live)
          /\ gonePop = RecKeys \ live
    /\ \E queued \in SUBSET RecKeys :
          timeout_queue = SelectSeq([i \in 1..MaxRecKeys |-> [time |-> 0, key |-> <<i, 1>>]],
                                    LAMBDA v : v.key \in queued)
    /\ tq_poisoned \in BOOLEAN
    /\ channels_poisoned \in BOOLEAN
    /\ tq_poisoned \/ channels_poisoned
    /\ recovered = FALSE
    /\ tqLock = 0
    /\ now = 0
    /\ rpc = [t \in Threads |-> "idle"]
    /\ rarg = [t \in Threads |-> None]
    /\ oneshot = [c \in 1..MaxRecKeys |-> [st |-> "open", val |-> <<>>]]
    /\ issued = [i \in 1..MaxRecKeys |-> <<i, 1>>]
    /\ goneTick = {}
    /\ lastPop = NoPop
    /\ FrameIdle /\ ChanIdle /\ HsIdle /\ PhIdle /\ SizeIdle /\ NodeIdle /\ ActorIdle /\ RaceIdle /\ GuardIdle /\ LockIdle /\ NsIdle

SpecRecover == RecoverInit /\ [][RecoverNext]_vars

\* C29: after recover has run on a poisoned registry, the slotmap keys and
\* the deque keys are the same set (every key that was present on one side
\* only has been evicted), each key occurs once in the deque, and both
\* mutexes are no longer poisoned.
C29_RecoverRestoresInvariant ==
    recovered =>
        /\ SlotKeys(channels) = QueueKeys(timeout_queue)
        /\ \A k \in QueueKeys(timeout_queue) : Occurrences(timeout_queue, k) = 1
        /\ ~tq_poisoned
        /\ ~channels_poisoned

(***************************************************************************)
(* Several handshakes on one node at the same time: calls of               *)
(* peer::handshake::handshake on one Arc<Peer>, or calls of                *)
(* Palantir::new_peer on one Palantir.  Call h runs on connection h.  Each *)
(* call is followed from the frame that tells it the counterparty's name:  *)
(* the lookup in the table is one step, the insert is a later one, and     *)
(* the steps of the calls interleave at the awaits between them.           *)
(***************************************************************************)
OkUnit == [tag |-> "Ok"]

\* The call returns.
RaceReturn(h, res) ==
    /\ cxPc' = [cxPc EXCEPT ![h] = "done"]
    /\ cxRes' = [cxRes EXCEPT ![h] = res]

\* HashMap::insert(name, connection) by call h.
RaceInsert(h) ==
    /\ cxPeers' = [cxPeers EXCEPT ![cxName[h]] = h]
    /\ cxReplaced' = (cxReplaced \/ cxPeers[cxName[h]] # 0)

\* handshake: framed.recv() returns Handshake { name }; contains_key(&name)
\* under the read lock; then the send of NameTaken and Err(NameTaken), or
\* the send of Ok.  A send that fails returns its own error.
HandshakeCheck(h, name, sendOk) ==
    /\ cxKind = "handshake"
    /\ cxPc[h] = "start"
    /\ cxName' = [cxName EXCEPT ![h] = name]
    /\ cxFound' = [cxFound EXCEPT ![h] = cxPeers[name] # 0]
    /\ IF ~sendOk THEN RaceReturn(h, Err("FramedError"))
       ELSE IF cxPeers[name] # 0 THEN RaceReturn(h, Err("NameTaken"))
       ELSE /\ cxPc' = [cxPc EXCEPT ![h] = "response"]
            /\ UNCHANGED cxRes
    /\ UNCHANGED <<cxKind, cxPeers, cxAddr, cxReplaced>>

\* handshake: framed.recv() returns the peer's response (or fails); on Ok
\* the write lock is taken, the connection inserted and Ok(name) returned.
HandshakeFinish(h, response) ==
    /\ cxKind = "handshake"
    /\ cxPc[h] = "response"
    /\ IF response = "Ok"
       THEN /\ RaceInsert(h)
            /\ RaceReturn(h, OkName(cxName[h]))
       ELSE /\ RaceReturn(h, Err(response))
            /\ UNCHANGED <<cxPeers, cxReplaced>>
    /\ UNCHANGED <<cxKind, cxName, cxAddr, cxFound>>

\* new_peer: the ServerResponse gives the name; self.peers.lock().await
\* .get(&name): an entry with the same remote address returns Ok(()), one
\* with another address Err(DuplicateName); the guard is dropped.
NewPeerCheck(h, name, addr) ==
    /\ cxKind = "new_peer"
    /\ cxPc[h] = "start"
    /\ cxName' = [cxName EXCEPT ![h] = name]
    /\ cxAddr' = [cxAddr EXCEPT ![h] = addr]
    /\ cxFound' = [cxFound EXCEPT ![h] = cxPeers[name] # 0]
    /\ IF cxPeers[name] = 0
       THEN /\ cxPc' = [cxPc EXCEPT ![h] = "insert"]
            /\ UNCHANGED cxRes
       ELSE IF cxAddr[cxPeers[name]] = addr THEN RaceReturn(h, OkUnit)
       ELSE RaceReturn(h, Err("DuplicateName"))
    /\ UNCHANGED <<cxKind, cxPeers, cxReplaced>>

\* new_peer: self.peers.lock().await.insert(name, conn); Ok(())
NewPeerInsert(h) ==
    /\ cxKind = "new_peer"
    /\ cxPc[h] = "insert"
    /\ RaceInsert(h)
    /\ RaceReturn(h, OkUnit)
    /\ UNCHANGED <<cxKind, cxName, cxAddr, cxFound>>

RaceResponses == {"Ok", "UnsatisfactoryResponse", "UnexpectedPacket", "FramedError"}
RaceAddrs == {1, 2}

RaceNext ==
    \/ \E h \in Calls : \E name \in RaceNames : \E sendOk \in BOOLEAN :
          HandshakeCheck(h, name, sendOk) /\ UNCHANGED nonRaceVars
    \/ \E h \in Calls : \E response \in RaceResponses :
          HandshakeFinish(h, response) /\ UNCHANGED nonRaceVars
    \/ \E h \in Calls : \E name \in RaceNames : \E addr \in RaceAddrs :
          NewPeerCheck(h, name, addr) /\ UNCHANGED nonRaceVars
    \/ \E h \in Calls : NewPeerInsert(h) /\ UNCHANGED nonRaceVars

\* An empty table and MaxHandshakes calls of one of the two functions.
RaceInit ==
    /\ cxKind \in {"handshake", "new_peer"}
    /\ cxPeers = [n \in RaceNames |-> 0]
    /\ cxPc = [h \in Calls |-> "start"]
    /\ cxName = [h \in Calls |-> ""]
    /\ cxAddr = [h \in Calls |-> 0]
    /\ cxRes = [h \in Calls |-> None]
    /\ cxFound = [h \in Calls |-> FALSE]
    /\ cxReplaced = FALSE
    /\ RegIdle /\ FrameIdle /\ ChanIdle /\ HsIdle /\ PhIdle /\ SizeIdle /\ NodeIdle /\ ActorIdle /\ PoisonIdle /\ GuardIdle /\ LockIdle /\ NsIdle

SpecRace == RaceInit /\ [][RaceNext]_vars

\* The call has returned Ok after inserting its connection.
Succeeded(h) == cxRes[h].tag = "Ok" /\ ~cxFound[h]

\* C27: under any interleaving of handshakes running concurrently on one
\* node, at most one handshake per counterparty name succeeds: once a name
\* is in the peer table its connection is never replaced, and every other
\* handshake presenting that name ends with a name-taken error.  A call
\* whose lookup found the name may also end with the error of the send that
\* should have told the peer, and new_peer returns Ok(()) without an insert
\* when the entry has its own remote address; neither counts here.
C27_OneHandshakePerName ==
    /\ \A h1, h2 \in Calls :
          (h1 # h2 /\ Succeeded(h1) /\ Succeeded(h2)) => cxName[h1] # cxName[h2]
    /\ ~cxReplaced
    /\ \A h \in Calls :
          (cxPc[h] = "done" /\ cxFound[h]) =>
              cxRes[h] \in {Err("NameTaken"), Err("DuplicateName"), Err("FramedError"), OkUnit}

(***************************************************************************)
(* The guards of peer.peers (std::sync::RwLock) and of peer.join_set       *)
(* (std::sync::Mutex) in handshake (from the frame that carries the        *)
(* peer's name) and in Peer::open_channel.  A guard is a temporary of the  *)
(* statement, or of the `if` condition, that locks: it is dropped where    *)
(* that ends.  A step is one statement; a pc that starts with "await" is   *)
(* a task suspended in the await of the next statement.                    *)
(***************************************************************************)
\* Guards that outlive the statement that took them.
KeepTemporaries(held) == held

\* The end of a statement or of an `if` condition: its temporaries are dropped.
DropTemporaries(held) == {}

\* RwLock::read, RwLock::write and Mutex::lock return at once or block.
CanLock(t, g) ==
    CASE g = "peers.read" -> \A u \in GuardTasks \ {t} : "peers.write" \notin gdHeld[u]
      [] g = "peers.write" ->
            \A u \in GuardTasks \ {t} : gdHeld[u] \cap {"peers.read", "peers.write"} = {}
      [] g = "join_set" -> \A u \in GuardTasks \ {t} : "join_set" \notin gdHeld[u]

\* One statement of task t that locks g, uses the guard and ends.
LockedStatement(t, g, next) ==
    /\ CanLock(t, g)
    /\ gdHeld' = [gdHeld EXCEPT ![t] = DropTemporaries(@ \cup {g})]
    /\ gdPc' = [gdPc EXCEPT ![t] = next]

\* An await of task t completes, with Ok or with the error `?` returns.
Resume(t, at, next) ==
    /\ gdPc[t] = at
    /\ \E ok \in BOOLEAN : gdPc' = [gdPc EXCEPT ![t] = IF ok THEN next ELSE "done"]
    /\ UNCHANGED <<gdFn, gdHeld, gdTable, gdArg, gdSpawned>>

\* handshake.rs:50-55: recv gives the name; if peers.read().contains_key(&name)
GuardHsLookup(t, name) ==
    /\ gdFn[t] = "handshake"
    /\ gdPc[t] = "start"
    /\ gdArg' = [gdArg EXCEPT ![t] = name]
    /\ LockedStatement(t, "peers.read",
                       IF name \in gdTable THEN "await send NameTaken" ELSE "await send Ok")
    /\ UNCHANGED <<gdFn, gdTable, gdSpawned>>

\* handshake.rs:56-57: framed.send(NameTaken).await?; return Err(NameTaken)
GuardHsSendTaken(t) == Resume(t, "await send NameTaken", "done")

\* handshake.rs:61: framed.send(Ok).await?
GuardHsSendOk(t) == Resume(t, "await send Ok", "await recv response")

\* handshake.rs:64-68: framed.recv().await? and the match on the response
GuardHsRecv(t) == Resume(t, "await recv response", "insert")

\* handshake.rs:71-75: peers.write().insert(name, connection); Ok(name)
GuardHsInsert(t) ==
    /\ gdFn[t] = "handshake"
    /\ gdPc[t] = "insert"
    /\ LockedStatement(t, "peers.write", "done")
    /\ gdTable' = gdTable \cup {gdArg[t]}
    /\ UNCHANGED <<gdFn, gdArg, gdSpawned>>

\* mod.rs:108-109: peers.read().get(peer).ok_or(PeerDoesntExist)?.clone()
GuardOcLookup(t, name) ==
    /\ gdFn[t] = "open_channel"
    /\ gdPc[t] = "start"
    /\ gdArg' = [gdArg EXCEPT ![t] = name]
    /\ LockedStatement(t, "peers.read", IF name \in gdTable THEN "await open_bi" ELSE "done")
    /\ UNCHANGED <<gdFn, gdTable, gdSpawned>>

\* mod.rs:112-114: conn.open_bi().await?.await?
GuardOcOpen(t) == Resume(t, "await open_bi", "await opening")

GuardOcOpening(t) == Resume(t, "await opening", "await send Initialize")

\* mod.rs:120: framed.send(Initialize(RequestResponse(id))).await?
GuardOcSend(t) == Resume(t, "await send Initialize", "spawn")

\* mod.rs:124-134: Channel::new, create_run_future, join_set.lock().spawn(..)
GuardOcSpawn(t) ==
    /\ gdFn[t] = "open_channel"
    /\ gdPc[t] = "spawn"
    /\ LockedStatement(t, "join_set", "done")
    /\ gdSpawned' = gdSpawned + 1
    /\ UNCHANGED <<gdFn, gdTable, gdArg>>

GuardNames == {"a", "b"}

GuardNext ==
    \/ \E t \in GuardTasks : \E name \in GuardNames : GuardHsLookup(t, name) /\ UNCHANGED nonGuardVars
    \/ \E t \in GuardTasks : GuardHsSendTaken(t) /\ UNCHANGED nonGuardVars
    \/ \E t \in GuardTasks : GuardHsSendOk(t) /\ UNCHANGED nonGuardVars
    \/ \E t \in GuardTasks : GuardHsRecv(t) /\ UNCHANGED nonGuardVars
    \/ \E t \in GuardTasks : GuardHsInsert(t) /\ UNCHANGED nonGuardVars
    \/ \E t \in GuardTasks : \E name \in GuardNames : GuardOcLookup(t, name) /\ UNCHANGED nonGuardVars
    \/ \E t \in GuardTasks : GuardOcOpen(t) /\ UNCHANGED nonGuardVars
    \/ \E t \in GuardTasks : GuardOcOpening(t) /\ UNCHANGED nonGuardVars
    \/ \E t \in GuardTasks : GuardOcSend(t) /\ UNCHANGED nonGuardVars
    \/ \E t \in GuardTasks : GuardOcSpawn(t) /\ UNCHANGED nonGuardVars

\* Each task runs one of the two functions on the same Peer.
GuardInit ==
    /\ gdFn \in [GuardTasks -> {"handshake", "open_channel"}]
    /\ gdPc = [t \in GuardTasks |-> "start"]
    /\ gdHeld = [t \in GuardTasks |-> {}]
    /\ gdTable = {}
    /\ gdArg = [t \in GuardTasks |-> ""]
    /\ gdSpawned = 0
    /\ RegIdle /\ FrameIdle /\ ChanIdle /\ HsIdle /\ PhIdle /\ SizeIdle /\ NodeIdle /\ ActorIdle /\ PoisonIdle /\ RaceIdle /\ LockIdle /\ NsIdle

SpecGuards == GuardInit /\ [][GuardNext]_vars

\* The awaits of the two functions: handshake.rs:56, 61, 64 and mod.rs:112-120.
AwaitPoints ==
    {"await send NameTaken", "await send Ok", "await recv response",
     "await open_bi", "await opening", "await send Initialize"}

Suspended(t) == gdPc[t] \in AwaitPoints

\* C32: no task is suspended at an await point while it holds a guard of the
\* peer-table lock or of the join-set mutex.
C32_NoGuardAcrossAwait ==
    \A t \in GuardTasks : Suspended(t) => gdHeld[t] = {}

\* A handshake is suspended in its send after its lookup, an open_channel in
\* its send after its lookup, and a third task has locked the table for
\* writing and the join set since.
C32_SuspendedAfterLookups ==
    /\ \E t \in GuardTasks : gdFn[t] = "handshake" /\ gdPc[t] = "await send Ok"
    /\ \E t \in GuardTasks : gdFn[t] = "open_channel" /\ gdPc[t] = "await send Initialize"
    /\ gdTable # {}

(***************************************************************************)
(* The locks of TimeoutChannels (timeout.rs), one lock() per step: which   *)
(* mutexes a thread holds while it asks for the next one.  The slotmap and *)
(* the deque are left out: a pop finds its key or not, a tick finds the    *)
(* deque empty or not.  A thread that panics drops its guards, which       *)
(* poisons their mutexes; the runtime catches the panic of a task and the  *)
(* thread goes on.                                                         *)
(***************************************************************************)
Holds(t, m) == \E i \in 1..Len(lkHeld[t]) : lkHeld[t][i] = m

\* Mutex::lock returns only when no thread holds the mutex, the caller
\* included.
Free(m) == \A u \in Threads : ~Holds(u, m)

Without(held, m) == SelectSeq(held, LAMBDA x : x # m)

\* A guard that lives on after the statement that locked.
TempKept(held, m) == Append(held, m)

\* A guard that is a temporary of the statement that locks: it is gone when
\* the statement ends.
TempDropped(held, m) == held

\* The panic of a thread: its guards are dropped while it unwinds.
Unwind(t) ==
    /\ lkPoison' = [m \in Mutexes |-> lkPoison[m] \/ Holds(t, m)]
    /\ lkHeld' = [lkHeld EXCEPT ![t] = <<>>]
    /\ lkPc' = [lkPc EXCEPT ![t] = "idle"]
    /\ lkRet' = [lkRet EXCEPT ![t] = ""]
    /\ lkPanics' = lkPanics + 1

\* self.m.lock().unwrap_or_else(|e| { self.recover(.., e.into_inner(), ..);
\* self.m.lock().expect("Mutex should no longer be poisoned") }) at pc
\* `from`.  Poisoned, the lock is held all the same and recover is entered
\* with its guard; poisoned again after recover, expect panics.  `after`
\* tells what the guard becomes and `to` where the thread goes on.
Lock(t, m, from, after, to) ==
    /\ lkPc[t] = from
    /\ Free(m)
    /\ IF ~lkPoison[m]
       THEN /\ lkHeld' = [lkHeld EXCEPT ![t] = after]
            /\ lkPc' = [lkPc EXCEPT ![t] = to]
            /\ lkRet' = [lkRet EXCEPT ![t] = ""]
            /\ UNCHANGED <<lkPoison, lkPanics>>
       ELSE IF lkRet[t] = from
       THEN Unwind(t)
       ELSE /\ lkHeld' = [lkHeld EXCEPT ![t] = Append(@, m)]
            /\ lkPc' = [lkPc EXCEPT ![t] = "recover"]
            /\ lkRet' = [lkRet EXCEPT ![t] = from]
            /\ UNCHANGED <<lkPoison, lkPanics>>
    /\ UNCHANGED lkCalls

\* A step that locks nothing.
Go(t, from, held, to) ==
    /\ lkPc[t] = from
    /\ lkHeld' = [lkHeld EXCEPT ![t] = held]
    /\ lkPc' = [lkPc EXCEPT ![t] = to]
    /\ UNCHANGED <<lkPoison, lkRet, lkCalls, lkPanics>>

\* add, pop or tick is called.
LkCall(t, fn) ==
    /\ lkCalls < MaxLockCalls
    /\ lkCalls' = lkCalls + 1
    /\ lkPc[t] = "idle"
    /\ lkPc' = [lkPc EXCEPT ![t] = fn]
    /\ UNCHANGED <<lkHeld, lkPoison, lkRet, lkPanics>>

\* add: let mut timeout_queue = self.timeout_queue.lock()..
LkAddLockQueue(t) ==
    Lock(t, "timeout_queue", "add", Append(lkHeld[t], "timeout_queue"), "add channels")

\* add: let mut channels = self.channels.lock()..
LkAddLockChannels(t) ==
    Lock(t, "channels", "add channels", Append(lkHeld[t], "channels"), "add insert")

\* add: channels.insert(sender); drop(channels);
LkAddInsert(t) == Go(t, "add insert", Without(lkHeld[t], "channels"), "add push")

\* add: timeout_queue.push_back(..); drop(timeout_queue); (receiver, key)
LkAddPush(t) == Go(t, "add push", Without(lkHeld[t], "timeout_queue"), "idle")

\* pop: let channel = self.channels.lock()...remove(key)?;
LkPopRemove(t) ==
    \E found \in BOOLEAN :
        Lock(t, "channels", "pop", TempDropped(lkHeld[t], "channels"),
             IF found THEN "pop queue" ELSE "idle")

\* pop: let mut timeout_queue = self.timeout_queue.lock()..
LkPopLockQueue(t) ==
    Lock(t, "timeout_queue", "pop queue", Append(lkHeld[t], "timeout_queue"), "pop scan")

\* pop: the loop over the deque; Some(channel); the guards go at the return.
LkPopScan(t) == Go(t, "pop scan", <<>>, "idle")

\* tick: let Some(first) = self.timeout_queue.lock()...front().copied()
\* else { return; };
LkTickFront(t) ==
    \E empty \in BOOLEAN :
        Lock(t, "timeout_queue", "tick", TempDropped(lkHeld[t], "timeout_queue"),
             IF empty THEN "idle" ELSE "tick sleep")

\* tick: tokio::time::sleep_until(..).await returns.
LkTickWake(t) == Go(t, "tick sleep", lkHeld[t], "tick queue")

\* tick: let mut timeout_queue = self.timeout_queue.lock()..
LkTickLockQueue(t) ==
    Lock(t, "timeout_queue", "tick queue", Append(lkHeld[t], "timeout_queue"), "tick channels")

\* tick: let mut channels = self.channels.lock()..
LkTickLockChannels(t) ==
    Lock(t, "channels", "tick channels", Append(lkHeld[t], "channels"), "tick loop")

\* tick: the loop; the guards go at the return.
LkTickLoop(t) == Go(t, "tick loop", <<>>, "idle")

\* The mutex recover locks itself: the one it was given no guard of.
Wanted(t) == IF lkHeld[t][Len(lkHeld[t])] = "channels" THEN "timeout_queue" ELSE "channels"

\* recover: tq.unwrap_or_else(|| self.timeout_queue.lock()..) or
\* channels.unwrap_or_else(|| self.channels.lock()..), poisoned or not.
LkRecoverLock(t) ==
    /\ lkPc[t] = "recover"
    /\ Free(Wanted(t))
    /\ lkHeld' = [lkHeld EXCEPT ![t] = Append(@, Wanted(t))]
    /\ lkPc' = [lkPc EXCEPT ![t] = "recover body"]
    /\ UNCHANGED <<lkPoison, lkRet, lkCalls, lkPanics>>

\* recover: the repairs, clear_poison on both mutexes, and the return, which
\* drops the two guards of recover.
LkRecoverReturn(t) ==
    /\ lkPc[t] = "recover body"
    /\ lkPoison' = [m \in Mutexes |-> FALSE]
    /\ lkHeld' = [lkHeld EXCEPT ![t] = SubSeq(@, 1, Len(@) - 2)]
    /\ lkPc' = [lkPc EXCEPT ![t] = lkRet[t]]
    /\ UNCHANGED <<lkRet, lkCalls, lkPanics>>

\* A thread panics between two statements while it holds a guard.
LkPanic(t) ==
    /\ lkPanics < MaxPanics
    /\ lkHeld[t] # <<>>
    /\ lkPc[t] \notin {"recover", "recover body"}
    /\ Unwind(t)
    /\ UNCHANGED lkCalls

LockFns == {"add", "pop", "tick"}

\* The steps of thread t inside a call when no mutex is poisoned.
LkStep(t) ==
    \/ LkAddLockQueue(t) /\ UNCHANGED nonLockVars
    \/ LkAddLockChannels(t) /\ UNCHANGED nonLockVars
    \/ LkAddInsert(t) /\ UNCHANGED nonLockVars
    \/ LkAddPush(t) /\ UNCHANGED nonLockVars
    \/ LkPopRemove(t) /\ UNCHANGED nonLockVars
    \/ LkPopLockQueue(t) /\ UNCHANGED nonLockVars
    \/ LkPopScan(t) /\ UNCHANGED nonLockVars
    \/ LkTickFront(t) /\ UNCHANGED nonLockVars
    \/ LkTickWake(t) /\ UNCHANGED nonLockVars
    \/ LkTickLockQueue(t) /\ UNCHANGED nonLockVars
    \/ LkTickLockChannels(t) /\ UNCHANGED nonLockVars
    \/ LkTickLoop(t) /\ UNCHANGED nonLockVars

LockNext ==
    \/ \E t \in Threads : \E fn \in LockFns : LkCall(t, fn) /\ UNCHANGED nonLockVars
    \/ \E t \in Threads : LkStep(t)

LockPoisonNext ==
    \/ \E t \in Threads : \E fn \in LockFns : LkCall(t, fn) /\ UNCHANGED nonLockVars
    \/ \E t \in Threads : LkStep(t)
    \/ \E t \in Threads : LkPanic(t) /\ UNCHANGED nonLockVars
    \/ \E t \in Threads : LkRecoverLock(t) /\ UNCHANGED nonLockVars
    \/ \E t \in Threads : LkRecoverReturn(t) /\ UNCHANGED nonLockVars

LockInit ==
    /\ LockIdle
    /\ RegIdle /\ FrameIdle /\ ChanIdle /\ HsIdle /\ PhIdle /\ SizeIdle /\ NodeIdle /\ ActorIdle /\ PoisonIdle /\ RaceIdle /\ GuardIdle /\ NsIdle

\* No thread panics: a thread inside a call takes its next step once the
\* mutex it asks for stays free, and a sleep ends.
SpecLocks == LockInit /\ [][LockNext]_vars /\ \A t \in Threads : WF_vars(LkStep(t))

\* Threads may panic with guards in hand.
SpecLocksPoison == LockInit /\ [][LockPoisonNext]_vars

\* C35: with no mutex poisoned, concurrent add, pop and tick never
\* deadlock: a thread that holds both mutexes locked timeout_queue before
\* channels, and every call that has started completes.
C35_LockOrderAndProgress ==
    /\ [](\A t \in Threads : Len(lkHeld[t]) = 2 => lkHeld[t] = <<"timeout_queue", "channels">>)
    /\ \A t \in Threads : (lkPc[t] # "idle") ~> (lkPc[t] = "idle")

\* One thread holds both mutexes inside add while the other waits inside
\* pop for the deque.
C35_BothHeldOtherWaits ==
    /\ lkPc[1] = "add insert"
    /\ lkHeld[1] = <<"timeout_queue", "channels">>
    /\ lkPc[2] = "pop queue"

\* C36: when add, pop or tick finds a registry mutex poisoned, recover runs
\* and the call completes: no call inside recover waits for a mutex that
\* its own thread holds, or for a mutex held by a thread that waits inside
\* recover for a mutex of the first.
C36_RecoverNeverBlocks ==
    \A t \in Threads :
        lkPc[t] = "recover" =>
            /\ ~Holds(t, Wanted(t))
            /\ \A u \in Threads \ {t} :
                  ~(lkPc[u] = "recover" /\ Holds(u, Wanted(t)) /\ Holds(t, Wanted(u)))

(***************************************************************************)
(* WTNamespace (src/src/layers/web_transport/namespace.rs): send_raw at    *)
(* one end of a stream, recv_raw at the other.  The length prefix is a     *)
(* usize in little endian, eight bytes.  A step of recv_raw runs from one  *)
(* await to the next.  A read that finds the stream finished returns None  *)
(* and changes nothing.                                                    *)
(***************************************************************************)
UsizeBytes == 8

\* The buffer of one read: let mut buf = [0u8; 1024].
ReadBuffer == 1024

\* A length no stream of the model holds: stands for every length from 2^16.
HugeLength == 65536

\* bytes.len().to_le_bytes()
UsizeLE(n) == <<n % 256, (n \div 256) % 256, 0, 0, 0, 0, 0, 0>>

\* usize::from_le_bytes(length)
FromUsizeLE(b) ==
    IF \A i \in 3..UsizeBytes : b[i] = 0 THEN b[1] + 256 * b[2] ELSE HugeLength

NsPayloads == {<<>>, <<7>>, <<7, 9>>}

\* send_raw(bytes): the prefix and the bytes go out in one write_all.
NsSendRaw(bytes) ==
    /\ Len(nsSent) < MaxNsFrames
    /\ nsSent' = Append(nsSent, bytes)
    /\ nsWire' = nsWire \o UsizeLE(Len(bytes)) \o bytes
    /\ UNCHANGED <<nsBuf, nsPc, nsLength, nsRecv, nsAhead>>

\* The loop of recv_raw with `buf` in self.buf: break and return the first
\* `length` bytes, keeping the rest in self.buf, or go on to the next read.
NsLoop(buf, length) ==
    IF Len(buf) >= length
    THEN /\ nsRecv' = Append(nsRecv, SubSeq(buf, 1, length))
         /\ nsBuf' = SubSeq(buf, length + 1, Len(buf))
         /\ nsPc' = "length"
         /\ nsLength' = 0
    ELSE /\ nsBuf' = buf
         /\ nsPc' = "data"
         /\ nsLength' = length
         /\ UNCHANGED nsRecv

\* recv_raw: self.stream.1.read_exact(&mut length) has its eight bytes.
NsRecvLength ==
    /\ nsPc = "length"
    /\ Len(nsWire) >= UsizeBytes
    /\ nsWire' = SubSeq(nsWire, UsizeBytes + 1, Len(nsWire))
    /\ NsLoop(nsBuf, FromUsizeLE(SubSeq(nsWire, 1, UsizeBytes)))
    /\ UNCHANGED <<nsSent, nsAhead>>

\* recv_raw: self.stream.1.read(&mut buf) returns n bytes, which are
\* appended to self.buf.
NsRecvRead(n) ==
    /\ nsPc = "data"
    /\ n \in 1..Len(nsWire)
    /\ n <= ReadBuffer
    /\ nsWire' = SubSeq(nsWire, n + 1, Len(nsWire))
    /\ nsAhead' = (nsAhead \/ Len(nsBuf) + n > nsLength)
    /\ NsLoop(nsBuf \o SubSeq(nsWire, 1, n), nsLength)
    /\ UNCHANGED nsSent

MaxNsRead == MaxNsFrames * (UsizeBytes + 2)

NsNext ==
    \/ \E bytes \in NsPayloads : NsSendRaw(bytes) /\ UNCHANGED nonNsVars
    \/ NsRecvLength /\ UNCHANGED nonNsVars
    \/ \E n \in 1..MaxNsRead : NsRecvRead(n) /\ UNCHANGED nonNsVars

NsInit ==
    /\ NsIdle
    /\ RegIdle /\ FrameIdle /\ ChanIdle /\ HsIdle /\ PhIdle /\ SizeIdle /\ NodeIdle /\ ActorIdle /\ PoisonIdle /\ RaceIdle /\ GuardIdle /\ LockIdle

SpecNs == NsInit /\ [][NsNext]_vars

\* C40: for any sequence of byte strings sent with send_raw, the successive
\* recv_raw calls return the same byte strings in the same order, whatever
\* way the transport groups the bytes into reads, also when one read
\* returns bytes that belong to the next frame.
C40_RawRoundTrip ==
    \A i \in 1..Len(nsRecv) : i <= Len(nsSent) /\ nsRecv[i] = nsSent[i]

=============================================================================
